---- MODULE Spec2Model ----
(***************************************************************************)
(* A model of cloudflare/certinel.                                         *)
(*                                                                         *)
(* Part I  : the Once-guarded Certinel (package certinel, Watch / Close /  *)
(*           Wait / GetCertificate / GetClientCertificate) driven by the   *)
(*           in-repository fakewatcher.FakeWatcher, whose Close outcome is *)
(*           the one a mocked Watcher may return (nil or an error).        *)
(* Part II : fswatcher.Sentinel (New / Start / loadCertificate and the two *)
(*           accessors) over a small file system, and ticker.Sentinel.     *)
(* Part III: fswatcher.Sentry, the channel-based watcher, in the two       *)
(*           revisions of src/fswatcher/fswatcher.go.                      *)
(* Part IV : the Certinel of src/certinel.go (Watch / Close).              *)
(* Part V  : the mutex-based Certinel whose Watch blocks until the first   *)
(*           event (src/unnamed/part_008).                                 *)
(***************************************************************************)
EXTENDS Naturals, Sequences, FiniteSets

\* ---------------------------------------------------------------- bounds
MaxEvents == 3        \* Observe / Error calls the driver makes on the watcher
MaxCloseCalls == 3    \* Close calls made in all, by either closing goroutine
MaxFsOps == 4         \* system calls that change the watched directory
MaxWaitCalls == 2     \* Wait calls made by the waiting goroutine
MaxTicks == 3         \* ticks the clock of a ticker.Sentinel delivers
MaxWatchCalls == 2    \* Watch calls made on the mutex-based Certinel
MaxPollOps == 7       \* system calls made on the files a pollwatcher.Sentry reads

Nil == "nil"
EmptyCert == "empty"                 \* &tls.Certificate{}
Kinds == {"cert", "err"}             \* what a watcher can deliver
\* The i-th call on the watcher carries a value of its own: certificate
\* CertName[i] for Observe, error ErrName[i] for Error.
CertName == <<"c1", "c2", "c3", "c4", "c5", "c6", "c7", "c8", "c9">>
ErrName == <<"e1", "e2", "e3", "e4", "e5", "e6", "e7", "e8", "e9">>
CloseResults == {Nil, "closeErr"}    \* what watcher.Close may return
Closers == {"k1", "k2"}              \* goroutines calling Certinel.Close
Callback == "cb"                     \* the Close call an errBack may make
AllClosers == Closers \cup {Callback}
\* What a program passes to New as errBack: nil, a function that records
\* the error and returns, or a function that calls c.Close().
ErrBackArgs == {Nil, "callback", "close"}
WatchCallers == {"w1", "w2"}         \* goroutines calling Certinel.Watch

VARIABLES
    subject,       \* which object the program built: "certinel", "sentinel"
                   \* (fswatcher.Sentinel) or "ticker" (ticker.Sentinel)
    \* --- certinel.Certinel (Once-guarded)
    certificate,   \* c.certificate (atomic.Value): Nil or a certificate
    watchOnce,     \* c.watchOnce: "new", "running", "done"
    closeOnce,     \* c.closeOnce: "new", "running", "done"
    err,           \* c.err
    errBack,       \* c.errBack
    loaded,        \* c.loaded channel: "open" or "closed"
    done,          \* c.done channel: "nil", "open" or "closed"
    loop,          \* the goroutine started by Watch: pc and its locals
    \* --- the Watcher (fakewatcher.FakeWatcher)
    watcher,       \* certCh, errCh, mu, closed, and what Close returns
    driver,        \* the goroutine calling Observe / Error on the watcher
    \* --- callers
    closer,        \* per closing goroutine: pc, named result err, bookkeeping
    watchPc,       \* per Watch caller: pc
    waiter,        \* the goroutine calling Wait: pc, its context, result
    hist,          \* what has happened so far (calls made, values delivered)
    \* --- fswatcher.Sentinel, ticker.Sentinel
    sCertificate,  \* w.certificate (atomic.Value): Nil or a certificate
    sentinel,      \* the goroutine running Start: pc, locals, result
    fs,            \* the watched directory: symlink target and file contents
    events,        \* fsnotify events and error, or the tick, not yet
                   \* received by Start
    sHist,         \* what has happened so far to the Sentinel
    \* --- fswatcher.Sentry
    sentry,        \* its channels, its goroutines, the fsnotify watcher,
                   \* the goroutine calling Close, the consumer
    \* --- certinel.Certinel of src/certinel.go
    legacy,        \* its certificate, the goroutines started by Watch, the
                   \* watcher's channels
    \* --- certinel.Certinel with a mutex (src/unnamed/part_008)
    mutexC,        \* its fields, the goroutines calling Watch and Close,
                   \* the event loop, the watcher's channels
    \* --- pollwatcher.Sentry
    poller         \* its channels, its polling goroutine, the two files,
                   \* the goroutine calling Close, the consumer

certinelVars == <<certificate, watchOnce, closeOnce, err, errBack, loaded, done,
                  loop, watcher, driver, closer, watchPc, waiter, hist>>
sentinelVars == <<sCertificate, sentinel, fs, events, sHist>>
otherVars == <<sentry, legacy, mutexC, poller>>
vars == <<subject, certinelVars, sentinelVars, otherVars>>

\* A Certinel method runs only in a program that built a Certinel, and then
\* touches nothing else.  No method assigns c.errBack, and only Wait moves
\* the goroutine that calls Wait.
OnCertinel ==
    /\ subject = "certinel"
    /\ UNCHANGED <<subject, errBack, waiter, sentinelVars, otherVars>>
OnWait ==
    /\ subject = "certinel"
    /\ UNCHANGED <<subject, errBack, sentinelVars, otherVars>>

\* ------------------------------------------------------------ accessors
\* A GetCertificate that reports "nothing loaded yet" as an error.
GetCertificate_ErrWhenEmpty ==
    [cert |-> certificate,
     err |-> IF certificate = Nil THEN "notLoaded" ELSE Nil]

\* Certinel.GetCertificate: (cert, err) with cert nil while nothing is stored.
GetCertificate == [cert |-> certificate, err |-> Nil]

\* A GetClientCertificate without the nil check (it hands out the nil pointer).
GetClientCertificate_NoEmpty == [cert |-> certificate, err |-> Nil]

\* Certinel.GetClientCertificate: an explicit empty certificate instead of nil.
GetClientCertificate ==
    [cert |-> IF certificate = Nil THEN EmptyCert ELSE certificate, err |-> Nil]

\* ------------------------------------------------------------------ New
\* A New that keeps the errBack it was given, nil included.
NewErrBack_KeepsNil(arg) == arg

\* if errBack == nil { errBack = func(error) {} }
NewErrBack(arg) == IF arg = Nil THEN "noop" ELSE arg

\* certinel.New over a fresh fakewatcher.New(): nothing stored, loaded open,
\* done nil, no goroutine.  closeResult is what the Watcher's Close returns.
New(arg) ==
    /\ certificate = Nil
    /\ errBack = NewErrBack(arg)
    /\ watchOnce = "new"
    /\ closeOnce = "new"
    /\ err = Nil
    /\ loaded = "open"
    /\ done = "nil"
    /\ loop = [pc |-> "none", tlsChan |-> FALSE, errChan |-> FALSE,
               loaded |-> FALSE, val |-> Nil]
    /\ \E r \in CloseResults :
          watcher = [certCh |-> "open", errCh |-> "open", mu |-> Nil,
                     closed |-> FALSE, closeResult |-> r]
    /\ driver = [pc |-> "idle", kind |-> Nil, val |-> Nil, n |-> 0]
    /\ closer = [k \in AllClosers |->
                   [pc |-> "idle", err |-> Nil, calls |-> 0,
                    seq |-> FALSE, tore |-> FALSE, early |-> FALSE]]
    /\ watchPc = [w \in WatchCallers |-> "idle"]
    /\ waiter = [pc |-> "none", ctx |-> "live", ret |-> Nil, calls |-> 0,
                 late |-> FALSE]
    /\ hist = [delivered |-> Nil, stores |-> 0, errBack |-> <<>>,
               wClose |-> 0, wWatch |-> 0, spawned |-> 0,
               anyReturned |-> FALSE, lateInject |-> FALSE, panicked |-> FALSE,
               lateWatch |-> FALSE, first |-> Nil, errRecv |-> <<>>]

\* The program of the tests: New with an errBack that records the error.
InitCertinel == New("callback")

\* ---------------------------------------------------------------- Watch
\* A Watch without the Once: every call makes a done channel and starts a
\* goroutine.
WatchEnter_NoOnce(w) ==
    /\ OnCertinel
    /\ watchPc[w] = "idle"
    /\ watchOnce # "running"
    /\ watchOnce' = "running"
    /\ done' = "open"
    /\ loop' = [loop EXCEPT !.pc = "spawned"]
    /\ hist' = [hist EXCEPT !.spawned = @ + 1]
    /\ watchPc' = [watchPc EXCEPT ![w] = "inDo"]
    /\ UNCHANGED <<certificate, closeOnce, err, loaded, watcher, driver, closer>>

\* Certinel.Watch, entering watchOnce.Do.  The first caller makes c.done and
\* starts the goroutine; a caller arriving while the first is still inside
\* Do blocks on the Once; a caller after that returns at once.
WatchEnter(w) ==
    /\ OnCertinel
    /\ watchPc[w] = "idle"
    /\ watchOnce # "running"
    /\ IF watchOnce = "new"
         THEN /\ watchOnce' = "running"
              /\ done' = "open"
              /\ loop' = [loop EXCEPT !.pc = "spawned"]
              /\ hist' = [hist EXCEPT !.spawned = @ + 1]
              /\ watchPc' = [watchPc EXCEPT ![w] = "inDo"]
         ELSE /\ watchPc' = [watchPc EXCEPT ![w] = "returned"]
              /\ hist' = [hist EXCEPT !.lateWatch = @ \/ hist.anyReturned]
              /\ UNCHANGED <<watchOnce, done, loop>>
    /\ UNCHANGED <<certificate, closeOnce, err, loaded, watcher, driver, closer>>

\* The first caller leaves watchOnce.Do and Watch returns.
WatchLeave(w) ==
    /\ OnCertinel
    /\ watchPc[w] = "inDo"
    /\ watchOnce' = "done"
    /\ watchPc' = [watchPc EXCEPT ![w] = "returned"]
    /\ UNCHANGED <<certificate, closeOnce, err, loaded, done, loop, watcher,
                   driver, closer, hist>>

\* ------------------------------------------------- the control goroutine
\* tlsChan, errChan := c.watcher.Watch()   (FakeWatcher.Watch returns its
\* two channels); then the loop condition is tested for the first time.
LoopWatch ==
    /\ OnCertinel
    /\ loop.pc = "spawned"
    /\ loop' = [loop EXCEPT !.pc = "select", !.tlsChan = TRUE, !.errChan = TRUE]
    /\ hist' = [hist EXCEPT !.wWatch = @ + 1]
    /\ UNCHANGED <<certificate, watchOnce, closeOnce, err, loaded, done,
                   watcher, driver, closer, watchPc>>

\* case certificate, ok := <-tlsChan with ok: rendezvous with the sender.
LoopRecvCert ==
    /\ OnCertinel
    /\ loop.pc = "select"
    /\ loop.tlsChan
    /\ driver.pc = "sending"
    /\ driver.kind = "cert"
    /\ loop' = [loop EXCEPT !.pc = "store", !.val = driver.val]
    /\ driver' = [driver EXCEPT !.pc = "sent"]
    /\ hist' = [hist EXCEPT !.delivered = driver.val,
                             !.first = IF @ = Nil THEN driver.val ELSE @]
    /\ UNCHANGED <<certificate, watchOnce, closeOnce, err, loaded, done,
                   watcher, closer, watchPc>>

\* A loop that unloads the certificate when the certificate channel closes.
LoopCertClosed_Unloads ==
    /\ OnCertinel
    /\ loop.pc = "select"
    /\ loop.tlsChan
    /\ watcher.certCh = "closed"
    /\ loop' = [loop EXCEPT !.pc = "exit", !.tlsChan = FALSE]
    /\ certificate' = Nil
    /\ UNCHANGED <<watchOnce, closeOnce, err, loaded, done,
                   watcher, driver, closer, watchPc, hist>>

\* case certificate, ok := <-tlsChan with !ok: tlsChan = nil; break.  The
\* loop condition then fails.
LoopCertClosed ==
    /\ OnCertinel
    /\ loop.pc = "select"
    /\ loop.tlsChan
    /\ watcher.certCh = "closed"
    /\ loop' = [loop EXCEPT !.pc = "exit", !.tlsChan = FALSE]
    /\ UNCHANGED <<certificate, watchOnce, closeOnce, err, loaded, done,
                   watcher, driver, closer, watchPc, hist>>

\* A loop that drops a certificate received while a Close call is under
\* way.
LoopStore_NotWhileClosing ==
    /\ OnCertinel
    /\ loop.pc = "store"
    /\ certificate' = IF \E k \in Closers :
                             closer[k].pc \notin {"idle", "returned"}
                        THEN certificate ELSE loop.val
    /\ loop' = [loop EXCEPT !.pc = "certLoaded"]
    /\ hist' = [hist EXCEPT !.stores = @ + 1]
    /\ UNCHANGED <<watchOnce, closeOnce, err, loaded, done, watcher, driver,
                   closer, watchPc>>

\* A Store placed inside the first-load branch: only the first certificate
\* is ever stored.
LoopStore_FirstOnly ==
    /\ OnCertinel
    /\ loop.pc = "store"
    /\ certificate' = IF loop.loaded THEN certificate ELSE loop.val
    /\ loop' = [loop EXCEPT !.pc = "certLoaded"]
    /\ hist' = [hist EXCEPT !.stores = @ + 1]
    /\ UNCHANGED <<watchOnce, closeOnce, err, loaded, done, watcher, driver,
                   closer, watchPc>>

\* c.certificate.Store(&certificate)
LoopStore ==
    /\ OnCertinel
    /\ loop.pc = "store"
    /\ certificate' = loop.val
    /\ loop' = [loop EXCEPT !.pc = "certLoaded"]
    /\ hist' = [hist EXCEPT !.stores = @ + 1]
    /\ UNCHANGED <<watchOnce, closeOnce, err, loaded, done, watcher, driver,
                   closer, watchPc>>

\* A loop that forgets the first error once a certificate arrives.
LoopCertLoaded_ClearsErr ==
    /\ OnCertinel
    /\ loop.pc = "certLoaded"
    /\ loop' = [loop EXCEPT !.pc = "select", !.loaded = TRUE, !.val = Nil]
    /\ loaded' = IF loop.loaded THEN loaded ELSE "closed"
    /\ err' = Nil
    /\ UNCHANGED <<certificate, watchOnce, closeOnce, done, watcher,
                   driver, closer, watchPc, hist>>

\* if !loaded { loaded = true; close(c.loaded) }   after a certificate
LoopCertLoaded ==
    /\ OnCertinel
    /\ loop.pc = "certLoaded"
    /\ loop' = [loop EXCEPT !.pc = "select", !.loaded = TRUE, !.val = Nil]
    /\ loaded' = IF loop.loaded THEN loaded ELSE "closed"
    /\ UNCHANGED <<certificate, watchOnce, closeOnce, err, done, watcher,
                   driver, closer, watchPc, hist>>

\* case err, ok := <-errChan with ok: rendezvous with the sender.
LoopRecvErr ==
    /\ OnCertinel
    /\ loop.pc = "select"
    /\ loop.errChan
    /\ driver.pc = "sending"
    /\ driver.kind = "err"
    /\ loop' = [loop EXCEPT !.pc = "errBack", !.val = driver.val]
    /\ driver' = [driver EXCEPT !.pc = "sent"]
    /\ hist' = [hist EXCEPT !.errRecv = Append(@, driver.val),
                             !.first = IF @ = Nil THEN driver.val ELSE @]
    /\ UNCHANGED <<certificate, watchOnce, closeOnce, err, loaded, done,
                   watcher, closer, watchPc>>

\* A loop without the ok test: the zero value a closed error channel yields
\* is handled as a delivered error.
LoopErrClosed_CallsErrBack ==
    /\ OnCertinel
    /\ loop.pc = "select"
    /\ loop.errChan
    /\ watcher.errCh = "closed"
    /\ loop' = [loop EXCEPT !.pc = "errBack", !.val = Nil]
    /\ UNCHANGED <<certificate, watchOnce, closeOnce, err, loaded, done,
                   watcher, driver, closer, watchPc, hist>>

\* case err, ok := <-errChan with !ok: errChan = nil; break.
LoopErrClosed ==
    /\ OnCertinel
    /\ loop.pc = "select"
    /\ loop.errChan
    /\ watcher.errCh = "closed"
    /\ loop' = [loop EXCEPT !.pc = "exit", !.errChan = FALSE]
    /\ UNCHANGED <<certificate, watchOnce, closeOnce, err, loaded, done,
                   watcher, driver, closer, watchPc, hist>>

\* An errBack call placed inside the first-load branch: only an error that
\* arrives before anything was loaded is reported.
LoopErrBack_FirstOnly ==
    /\ OnCertinel
    /\ loop.pc = "errBack"
    /\ hist' = [hist EXCEPT !.errBack = IF loop.loaded THEN @
                                        ELSE Append(@, loop.val)]
    /\ loop' = [loop EXCEPT !.pc = "errLoaded"]
    /\ UNCHANGED <<certificate, watchOnce, closeOnce, err, loaded, done,
                   watcher, driver, closer, watchPc>>

\* c.errBack(err), on the control goroutine.  Calling a nil function
\* panics; the no-op New puts in place of nil and a recording callback
\* return; a callback that calls c.Close() starts that Close call, and
\* errBack returns when Close has returned.
LoopErrBack ==
    /\ OnCertinel
    /\ loop.pc = "errBack"
    /\ IF errBack = Nil
         THEN /\ loop' = [loop EXCEPT !.pc = "panicked"]
              /\ hist' = [hist EXCEPT !.panicked = TRUE]
              /\ UNCHANGED closer
         ELSE /\ hist' = [hist EXCEPT !.errBack = Append(@, loop.val)]
              /\ IF errBack = "close"
                   THEN /\ loop' = [loop EXCEPT !.pc = "inErrBack"]
                        /\ closer' = [closer EXCEPT ![Callback] =
                                        [pc |-> "watchOnce", err |-> Nil,
                                         calls |-> @.calls + 1,
                                         seq |-> hist.anyReturned,
                                         tore |-> FALSE,
                                         early |-> /\ hist.spawned = 1
                                                   /\ hist.delivered = Nil]]
                   ELSE /\ loop' = [loop EXCEPT !.pc = "errLoaded"]
                        /\ UNCHANGED closer
    /\ UNCHANGED <<certificate, watchOnce, closeOnce, err, loaded, done,
                   watcher, driver, watchPc>>

\* c.errBack(err) has returned: at once, or when the Close call it made has.
ErrBackReturned ==
    \/ loop.pc = "errLoaded"
    \/ loop.pc = "inErrBack" /\ closer[Callback].pc = "returned"

\* An error path that also clears the cell.
LoopErrLoaded_Clears ==
    /\ OnCertinel
    /\ ErrBackReturned
    /\ loop' = [loop EXCEPT !.pc = "select", !.loaded = TRUE, !.val = Nil]
    /\ err' = IF loop.loaded THEN err ELSE loop.val
    /\ loaded' = IF loop.loaded THEN loaded ELSE "closed"
    /\ certificate' = Nil
    /\ UNCHANGED <<watchOnce, closeOnce, done, watcher, driver,
                   closer, watchPc, hist>>

\* if !loaded { loaded = true; c.err = err; close(c.loaded) }
LoopErrLoaded ==
    /\ OnCertinel
    /\ ErrBackReturned
    /\ loop' = [loop EXCEPT !.pc = "select", !.loaded = TRUE, !.val = Nil]
    /\ err' = IF loop.loaded THEN err ELSE loop.val
    /\ loaded' = IF loop.loaded THEN loaded ELSE "closed"
    /\ UNCHANGED <<certificate, watchOnce, closeOnce, done, watcher, driver,
                   closer, watchPc, hist>>

\* A goroutine that returns without closing c.done.
LoopExit_DoneLeftOpen ==
    /\ OnCertinel
    /\ loop.pc = "exit"
    /\ loop' = [loop EXCEPT !.pc = "exited"]
    /\ UNCHANGED <<certificate, watchOnce, closeOnce, err, loaded, done,
                   watcher, driver, closer, watchPc, hist>>

\* The loop condition failed: the deferred close(c.done) runs.
LoopExit ==
    /\ OnCertinel
    /\ loop.pc = "exit"
    /\ loop' = [loop EXCEPT !.pc = "exited"]
    /\ done' = "closed"
    /\ UNCHANGED <<certificate, watchOnce, closeOnce, err, loaded, watcher,
                   driver, closer, watchPc, hist>>

\* ------------------------------------------- FakeWatcher.Observe / Error
\* w.mu.Lock(); if !w.closed { w.certCh <- cert }  (or w.errCh <- err).
\* On a closed watcher the call unlocks and returns without sending.
DriverCall(kind) ==
    /\ OnCertinel
    /\ driver.pc = "idle"
    /\ driver.n < MaxEvents
    /\ watcher.mu = Nil
    /\ IF watcher.closed
         THEN /\ driver' = [driver EXCEPT !.n = @ + 1]
              /\ hist' = [hist EXCEPT !.lateInject = @ \/ hist.anyReturned]
              /\ UNCHANGED watcher
         ELSE /\ driver' = [pc |-> "sending", kind |-> kind,
                            val |-> IF kind = "cert"
                                      THEN CertName[driver.n + 1]
                                      ELSE ErrName[driver.n + 1],
                            n |-> driver.n + 1]
              /\ watcher' = [watcher EXCEPT !.mu = "driver"]
              /\ UNCHANGED hist
    /\ UNCHANGED <<certificate, watchOnce, closeOnce, err, loaded, done, loop,
                   closer, watchPc>>

\* The send completed (the loop received): the deferred w.mu.Unlock() runs.
DriverUnlock ==
    /\ OnCertinel
    /\ driver.pc = "sent"
    /\ driver' = [driver EXCEPT !.pc = "idle", !.kind = Nil, !.val = Nil]
    /\ watcher' = [watcher EXCEPT !.mu = Nil]
    /\ UNCHANGED <<certificate, watchOnce, closeOnce, err, loaded, done, loop,
                   closer, watchPc, hist>>

\* ---------------------------------------------------------------- Close
\* Close calls made so far.
CloseCalls == closer["k1"].calls + closer["k2"].calls

\* A goroutine calls Certinel.Close; its named result err starts as nil.
\* seq records whether some earlier Close call had already returned,
\* early whether the call is made after Watch has started the goroutine and
\* before any certificate has been delivered.
CloseCall(k) ==
    /\ OnCertinel
    /\ closer[k].pc = "idle"
    /\ CloseCalls < MaxCloseCalls
    /\ closer' = [closer EXCEPT ![k] = [pc |-> "watchOnce", err |-> Nil,
                                         calls |-> @.calls + 1,
                                         seq |-> hist.anyReturned,
                                         tore |-> FALSE,
                                         early |-> /\ hist.spawned = 1
                                                   /\ hist.delivered = Nil]]
    /\ UNCHANGED <<certificate, watchOnce, closeOnce, err, loaded, done, loop,
                   watcher, driver, watchPc, hist>>

\* A Close that leaves watchOnce alone.
CloseWatchOnce_Untouched(k) ==
    /\ OnCertinel
    /\ closer[k].pc = "watchOnce"
    /\ watchOnce # "running"
    /\ closer' = [closer EXCEPT ![k].pc = "closeOnce"]
    /\ UNCHANGED <<certificate, watchOnce, closeOnce, err, loaded, done, loop,
                   watcher, driver, watchPc, hist>>

\* c.watchOnce.Do(func() {}): consumes the Once if it is still new, waits
\* while a Watch call is inside it.
CloseWatchOnce(k) ==
    /\ OnCertinel
    /\ closer[k].pc = "watchOnce"
    /\ watchOnce # "running"
    /\ watchOnce' = "done"
    /\ closer' = [closer EXCEPT ![k].pc = "closeOnce"]
    /\ UNCHANGED <<certificate, closeOnce, err, loaded, done, loop, watcher,
                   driver, watchPc, hist>>

\* A Close without the closeOnce guard: every call runs the teardown.
CloseOnceDo_NoOnce(k) ==
    /\ OnCertinel
    /\ closer[k].pc = "closeOnce"
    /\ closeOnce # "running"
    /\ closeOnce' = "running"
    /\ closer' = [closer EXCEPT ![k].pc = "wLock", ![k].tore = TRUE]
    /\ hist' = [hist EXCEPT !.wClose = @ + 1]
    /\ UNCHANGED <<certificate, watchOnce, err, loaded, done, loop, watcher,
                   driver, watchPc>>

\* A Close that hands the teardown's outcome to every later caller too.
CloseOnceDo_Sticky(k) ==
    /\ OnCertinel
    /\ closer[k].pc = "closeOnce"
    /\ closeOnce # "running"
    /\ IF closeOnce = "new"
         THEN /\ closeOnce' = "running"
              /\ closer' = [closer EXCEPT ![k].pc = "wLock", ![k].tore = TRUE]
              /\ hist' = [hist EXCEPT !.wClose = @ + 1]
         ELSE /\ closer' = [closer EXCEPT ![k].pc = "waitDone",
                                          ![k].err = watcher.closeResult]
              /\ UNCHANGED <<closeOnce, hist>>
    /\ UNCHANGED <<certificate, watchOnce, err, loaded, done, loop, watcher,
                   driver, watchPc>>

\* c.closeOnce.Do(func() { err = c.watcher.Close() }): the first caller
\* enters the function; a caller arriving while it runs waits; a caller
\* after it skips the function.
CloseOnceDo(k) ==
    /\ OnCertinel
    /\ closer[k].pc = "closeOnce"
    /\ closeOnce # "running"
    /\ IF closeOnce = "new"
         THEN /\ closeOnce' = "running"
              /\ closer' = [closer EXCEPT ![k].pc = "wLock", ![k].tore = TRUE]
              /\ hist' = [hist EXCEPT !.wClose = @ + 1]
         ELSE /\ closer' = [closer EXCEPT ![k].pc = "waitDone"]
              /\ UNCHANGED <<closeOnce, hist>>
    /\ UNCHANGED <<certificate, watchOnce, err, loaded, done, loop, watcher,
                   driver, watchPc>>

\* FakeWatcher.Close: w.mu.Lock(); close(w.certCh).  Closing a channel that
\* is already closed panics.
WatcherCloseCert(k) ==
    /\ OnCertinel
    /\ closer[k].pc = "wLock"
    /\ watcher.mu = Nil
    /\ IF watcher.certCh = "closed"
         THEN /\ hist' = [hist EXCEPT !.panicked = TRUE]
              /\ closer' = [closer EXCEPT ![k].pc = "panicked"]
              /\ UNCHANGED watcher
         ELSE /\ watcher' = [watcher EXCEPT !.mu = k, !.certCh = "closed"]
              /\ closer' = [closer EXCEPT ![k].pc = "wClose"]
              /\ UNCHANGED hist
    /\ UNCHANGED <<certificate, watchOnce, closeOnce, err, loaded, done, loop,
                   driver, watchPc>>

\* A Close that drops what watcher.Close returned.
WatcherCloseErr_Dropped(k) ==
    /\ OnCertinel
    /\ closer[k].pc = "wClose"
    /\ watcher' = [watcher EXCEPT !.mu = Nil, !.errCh = "closed",
                                  !.closed = TRUE]
    /\ closeOnce' = "done"
    /\ closer' = [closer EXCEPT ![k].pc = "waitDone"]
    /\ UNCHANGED <<certificate, watchOnce, err, loaded, done, loop, driver,
                   watchPc, hist>>

\* FakeWatcher.Close: close(w.errCh); w.closed = true; unlock; the value it
\* returns is assigned to the caller's err and closeOnce.Do completes.
WatcherCloseErr(k) ==
    /\ OnCertinel
    /\ closer[k].pc = "wClose"
    /\ watcher' = [watcher EXCEPT !.mu = Nil, !.errCh = "closed",
                                  !.closed = TRUE]
    /\ closeOnce' = "done"
    /\ closer' = [closer EXCEPT ![k].pc = "waitDone",
                                ![k].err = watcher.closeResult]
    /\ UNCHANGED <<certificate, watchOnce, err, loaded, done, loop, driver,
                   watchPc, hist>>

\* A Close that does not wait for the control goroutine.
CloseWaitDone_NoWait(k) ==
    /\ OnCertinel
    /\ closer[k].pc = "waitDone"
    /\ closer' = [closer EXCEPT ![k].pc = "returned"]
    /\ hist' = [hist EXCEPT !.anyReturned = TRUE]
    /\ UNCHANGED <<certificate, watchOnce, closeOnce, err, loaded, done, loop,
                   watcher, driver, watchPc>>

\* if c.done != nil { <-c.done }; return err
CloseWaitDone(k) ==
    /\ OnCertinel
    /\ closer[k].pc = "waitDone"
    /\ done # "open"
    /\ closer' = [closer EXCEPT ![k].pc = "returned"]
    /\ hist' = [hist EXCEPT !.anyReturned = TRUE]
    /\ UNCHANGED <<certificate, watchOnce, closeOnce, err, loaded, done, loop,
                   watcher, driver, watchPc>>

\* The caller has taken the result and may call Close again.
CloseDone(k) ==
    /\ OnCertinel
    /\ closer[k].pc = "returned"
    /\ CloseCalls < MaxCloseCalls
    /\ closer' = [closer EXCEPT ![k].pc = "idle"]
    /\ UNCHANGED <<certificate, watchOnce, closeOnce, err, loaded, done, loop,
                   watcher, driver, watchPc, hist>>

\* ----------------------------------------------------------------- Wait
\* A goroutine calls Certinel.Wait(ctx) with a context of its own.  late
\* records whether a certificate was already stored when the call was made.
WaitCall ==
    /\ OnWait
    /\ waiter.pc \in {"none", "returned"}
    /\ waiter.calls < MaxWaitCalls
    /\ waiter' = [pc |-> "select", ctx |-> "live", ret |-> Nil,
                  calls |-> waiter.calls + 1, late |-> certificate # Nil]
    /\ UNCHANGED <<certificate, watchOnce, closeOnce, err, loaded, done, loop,
                   watcher, driver, closer, watchPc, hist>>

\* The context of the Wait call in progress is cancelled.
WaitCtxCancel ==
    /\ OnWait
    /\ waiter.pc = "select"
    /\ waiter.ctx = "live"
    /\ waiter' = [waiter EXCEPT !.ctx = "canceled"]
    /\ UNCHANGED <<certificate, watchOnce, closeOnce, err, loaded, done, loop,
                   watcher, driver, closer, watchPc, hist>>

\* case <-ctx.Done(): return ctx.Err()
WaitCtxDone ==
    /\ OnWait
    /\ waiter.pc = "select"
    /\ waiter.ctx = "canceled"
    /\ waiter' = [waiter EXCEPT !.pc = "returned", !.ret = "ctxErr"]
    /\ UNCHANGED <<certificate, watchOnce, closeOnce, err, loaded, done, loop,
                   watcher, driver, closer, watchPc, hist>>

\* case <-c.loaded:   (a receive on the closed channel)
WaitLoaded ==
    /\ OnWait
    /\ waiter.pc = "select"
    /\ loaded = "closed"
    /\ waiter' = [waiter EXCEPT !.pc = "loaded"]
    /\ UNCHANGED <<certificate, watchOnce, closeOnce, err, loaded, done, loop,
                   watcher, driver, closer, watchPc, hist>>

\* A Wait that reports success once something was loaded.
WaitReturn_Nil ==
    /\ OnWait
    /\ waiter.pc = "loaded"
    /\ waiter' = [waiter EXCEPT !.pc = "returned", !.ret = Nil]
    /\ UNCHANGED <<certificate, watchOnce, closeOnce, err, loaded, done, loop,
                   watcher, driver, closer, watchPc, hist>>

\* return c.err
WaitReturn ==
    /\ OnWait
    /\ waiter.pc = "loaded"
    /\ waiter' = [waiter EXCEPT !.pc = "returned", !.ret = err]
    /\ UNCHANGED <<certificate, watchOnce, closeOnce, err, loaded, done, loop,
                   watcher, driver, closer, watchPc, hist>>

NextCertinel ==
    \/ \E w \in WatchCallers : WatchEnter(w)
    \/ \E w \in WatchCallers : WatchLeave(w)
    \/ LoopWatch
    \/ LoopRecvCert
    \/ LoopCertClosed
    \/ LoopStore
    \/ LoopCertLoaded
    \/ LoopRecvErr
    \/ LoopErrClosed
    \/ LoopErrBack
    \/ LoopErrLoaded
    \/ LoopExit
    \/ \E kind \in Kinds : DriverCall(kind)
    \/ DriverUnlock
    \/ \E k \in Closers : CloseCall(k)
    \/ \E k \in Closers : CloseWatchOnce(k)
    \/ \E k \in Closers : CloseOnceDo(k)
    \/ \E k \in Closers : WatcherCloseCert(k)
    \/ \E k \in Closers : WatcherCloseErr(k)
    \/ \E k \in Closers : CloseWaitDone(k)
    \/ \E k \in Closers : CloseDone(k)

\* ======================================================================
\* Part II: fswatcher.Sentinel
\* ======================================================================
\* What a certificate file can hold: nothing (removed), bytes that do not
\* parse, or a certificate with a serial number for the public key of a key.
Missing == [kind |-> "missing", serial |-> 0, key |-> ""]
Bad == [kind |-> "bad", serial |-> 0, key |-> ""]
Crt(s, k) == [kind |-> "cert", serial |-> s, key |-> k]
\* A key file holds "missing", "bad" or the name of a key ("k1", "k2").
\* A *tls.Certificate held by a Sentinel: the nil pointer, the empty
\* certificate &tls.Certificate{}, or a loaded pair with its Leaf attached.
NilCert == [ptr |-> "nil", serial |-> 0, key |-> "", leaf |-> FALSE]
EmptyCertificate == [ptr |-> "empty", serial |-> 0, key |-> "", leaf |-> FALSE]
Dirs == {"first", "second"}
\* How the watched directory is laid out: "regular", my.crt and my.key are
\* regular files in it; "file", my.crt is a symlink to <dir>/my.crt and
\* my.key a regular file; "dir", my.crt and my.key are symlinks through
\* ..data, itself a symlink to <dir>.
Layouts == {"regular", "file", "dir"}
Top == "top"                         \* the watched directory itself
\* Contents the environment writes over my.crt and my.key.
CrtWrites == {Bad, Crt(2, "k2"), Crt(3, "k1")}
KeyWrites == {"bad", "k2"}
NoPath == ""
\* Errors the fsnotify watcher can report on its Errors channel.
SourceErrs == {"sourceErr1", "sourceErr2"}
\* What ctx.Err() returns once the context is done.
CtxErrs == {"canceled", "deadlineExceeded"}

\* Another Sentinel method runs only in a program that built a Sentinel.
OnSentinel ==
    subject = "sentinel" /\ UNCHANGED <<subject, certinelVars, otherVars>>
OnTicker ==
    subject = "ticker" /\ UNCHANGED <<subject, certinelVars, otherVars>>
\* What the two Sentinels have in common: loadCertificate, the directory
\* they read, the context given to Start.
OnAnySentinel ==
    /\ subject \in {"sentinel", "ticker"}
    /\ UNCHANGED <<subject, certinelVars, otherVars>>

\* Where certPath leads: the regular file in the watched directory, or
\* <dir>/my.crt through the symlink.
CrtAt(f) == IF f.layout = "regular" THEN Top ELSE f.link

\* filepath.EvalSymlinks(certPath): the directory the certificate file is
\* found in; the resolution fails when the file does not exist.
EvalSymlinks(f) ==
    IF f.crt[CrtAt(f)] = Missing
      THEN [path |-> NoPath, err |-> "evalErr"]
      ELSE [path |-> CrtAt(f), err |-> Nil]

\* A predicate that looks at the name only, whatever the operation.
eventCreatesOrWritesPath_AnyOp(event) == event.name = "my.crt"

\* A predicate that wants the Create and the Write bit both set, as
\* `event.Op&mask == mask` would: no event of one operation satisfies it.
eventCreatesOrWritesPath_BothOps(event) ==
    event.name = "my.crt" /\ event.op = "create|write"

\* eventCreatesOrWritesPath(event, certPath); event names arrive cleaned.
eventCreatesOrWritesPath(event) ==
    event.name = "my.crt" /\ event.op \in {"create", "write"}

\* A predicate that never reports a change of the resolution.
symlinkModified_Never(cur, prev) == FALSE

\* symlinkModified(cur, prev)
symlinkModified(cur, prev) == cur # NoPath /\ cur # prev

\* A load that leaves certificate.Leaf unset.
ParseKeyPair_NoLeaf(crt, key) ==
    IF crt.kind # "cert" \/ key \in {"missing", "bad"} \/ crt.key # key
      THEN [cert |-> NilCert, err |-> "loadErr"]
      ELSE [cert |-> [ptr |-> "cert", serial |-> crt.serial, key |-> key,
                      leaf |-> FALSE],
            err |-> Nil]

\* tls.LoadX509KeyPair followed by x509.ParseCertificate on bytes read from
\* the two files: the loaded certificate with its Leaf, or an error.
ParseKeyPair(crt, key) ==
    IF crt.kind # "cert" \/ key \in {"missing", "bad"} \/ crt.key # key
      THEN [cert |-> NilCert, err |-> "loadErr"]
      ELSE [cert |-> [ptr |-> "cert", serial |-> crt.serial, key |-> key,
                      leaf |-> TRUE],
            err |-> Nil]

\* Sentinel.GetCertificate
SentinelGetCertificate == [cert |-> sCertificate, err |-> Nil]

\* Sentinel.GetClientCertificate
SentinelGetClientCertificate ==
    [cert |-> IF sCertificate = NilCert THEN EmptyCertificate
              ELSE sCertificate,
     err |-> Nil]

\* Where keyPath leads: the regular file, or <dir>/my.key through ..data.
KeyAt(f) == IF f.layout = "dir" THEN f.link ELSE Top

\* The directory of the tests.  "regular": my.crt (serial 1) and my.key.
\* "file": first/my.crt (serial 1) and second/my.crt (serial 2) for one
\* key, kept in the regular file my.key.  "dir": each directory holds the
\* certificate and the key of its own pair.  newLink tells whether the
\* symlink made for a swap (.my.new.crt, ..data_tmp) is there, newCrt is
\* the content of the file cert.new and newPc how far its writer has come.
InitFs(layout) ==
    [layout |-> layout,
     link |-> "first",
     crt |-> [d \in Dirs \cup {Top} |->
                IF layout = "regular"
                  THEN (IF d = Top THEN Crt(1, "k1") ELSE Missing)
                  ELSE (IF d = "first" THEN Crt(1, "k1")
                        ELSE IF d = "second"
                               THEN Crt(2, IF layout = "dir" THEN "k2"
                                           ELSE "k1")
                               ELSE Missing)],
     key |-> [d \in Dirs \cup {Top} |->
                IF layout = "dir"
                  THEN (IF d = "first" THEN "k1"
                        ELSE IF d = "second" THEN "k2" ELSE "missing")
                  ELSE (IF d = Top THEN "k1" ELSE "missing")],
     newLink |-> FALSE,
     newCrt |-> Missing,
     newPc |-> "none"]

\* fswatcher.New returned a Sentinel: the initial loadCertificate succeeded
\* on my.crt (serial 1) and my.key; Start has not been called.
InitSentinel ==
    /\ \E layout \in Layouts : fs = InitFs(layout)
    /\ sCertificate = ParseKeyPair(fs.crt[CrtAt(fs)], fs.key[KeyAt(fs)]).cert
    /\ sentinel = [pc |-> "new", realCertPath |-> NoPath, ctx |-> "live",
                   crt |-> Missing, key |-> "missing", ret |-> Nil]
    /\ events = [q |-> <<>>, err |-> Nil, tick |-> FALSE]
    /\ sHist = [ops |-> 0, watched |-> 0, loads |-> 0, loadErrs |-> 0,
                ticks |-> 0, removes |-> 0]

\* Start up to its first look at the directory: fsnotify.NewWatcher, whose
\* error (the system's limit on watchers) is returned as "unable to create
\* watcher"; then realCertPath from a first EvalSymlinks whose error is
\* dropped.
Start ==
    /\ OnSentinel
    /\ sentinel.pc = "new"
    /\ \E r \in {Nil, "watcherErr"} :
          sentinel' = IF r # Nil
                        THEN [sentinel EXCEPT !.pc = "returned", !.ret = r]
                        ELSE [sentinel EXCEPT
                                 !.pc = "add",
                                 !.realCertPath = EvalSymlinks(fs).path]
    /\ UNCHANGED <<sCertificate, fs, events, sHist>>

\* watcher.Add(certDir): an error (a directory that cannot be watched) is
\* returned as "unable to create watcher"; otherwise the loop begins and
\* the changes made to the directory from now on are delivered.
StartAdd ==
    /\ OnSentinel
    /\ sentinel.pc = "add"
    /\ \E r \in {Nil, "watcherErr"} :
          sentinel' = IF r # Nil
                        THEN [sentinel EXCEPT !.pc = "returned", !.ret = r]
                        ELSE [sentinel EXCEPT !.pc = "select"]
    /\ UNCHANGED <<sCertificate, fs, events, sHist>>

\* A Start that returns nil when its context is done.
StartCtxDone_ReturnsNil ==
    /\ OnSentinel
    /\ sentinel.pc = "select"
    /\ sentinel.ctx \in CtxErrs
    /\ sentinel' = [sentinel EXCEPT !.pc = "returned", !.ret = Nil]
    /\ UNCHANGED <<sCertificate, fs, events, sHist>>

\* case <-ctx.Done(): return ctx.Err()
StartCtxDone ==
    /\ OnSentinel
    /\ sentinel.pc = "select"
    /\ sentinel.ctx \in CtxErrs
    /\ sentinel' = [sentinel EXCEPT !.pc = "returned", !.ret = sentinel.ctx]
    /\ UNCHANGED <<sCertificate, fs, events, sHist>>

\* A Start that records the resolution only at its beginning.
StartEvent_PathNotRecorded ==
    /\ OnSentinel
    /\ sentinel.pc = "select"
    /\ events.q # <<>>
    /\ events' = [events EXCEPT !.q = Tail(@)]
    /\ LET event == Head(events.q)
           cur == EvalSymlinks(fs)
       IN  IF cur.err # Nil
             THEN sentinel' = [sentinel EXCEPT !.pc = "returned",
                                               !.ret = cur.err]
             ELSE IF \/ eventCreatesOrWritesPath(event)
                     \/ symlinkModified(cur.path, sentinel.realCertPath)
                    THEN sentinel' = [sentinel EXCEPT !.pc = "readCrt"]
                    ELSE sentinel' = sentinel
    /\ UNCHANGED <<sCertificate, fs, sHist>>

\* A Start that drops the resolution error, as `currentPath, _ :=` would.
StartEvent_EvalErrDropped ==
    /\ OnSentinel
    /\ sentinel.pc = "select"
    /\ events.q # <<>>
    /\ events' = [events EXCEPT !.q = Tail(@)]
    /\ LET event == Head(events.q)
           cur == EvalSymlinks(fs)
       IN  IF \/ eventCreatesOrWritesPath(event)
              \/ symlinkModified(cur.path, sentinel.realCertPath)
             THEN sentinel' = [sentinel EXCEPT !.pc = "readCrt",
                                               !.realCertPath = cur.path]
             ELSE sentinel' = sentinel
    /\ UNCHANGED <<sCertificate, fs, sHist>>

\* case event := <-watcher.Events: resolve the path; an error is returned;
\* otherwise the two predicates decide whether to reload.
StartEvent ==
    /\ OnSentinel
    /\ sentinel.pc = "select"
    /\ events.q # <<>>
    /\ events' = [events EXCEPT !.q = Tail(@)]
    /\ LET event == Head(events.q)
           cur == EvalSymlinks(fs)
       IN  IF cur.err # Nil
             THEN sentinel' = [sentinel EXCEPT !.pc = "returned",
                                               !.ret = cur.err]
             ELSE IF \/ eventCreatesOrWritesPath(event)
                     \/ symlinkModified(cur.path, sentinel.realCertPath)
                    THEN sentinel' = [sentinel EXCEPT !.pc = "readCrt",
                                                      !.realCertPath = cur.path]
                    ELSE sentinel' = sentinel
    /\ UNCHANGED <<sCertificate, fs, sHist>>

\* A Start that wraps every source error into one of its own.
StartSourceErr_Wrapped ==
    /\ OnSentinel
    /\ sentinel.pc = "select"
    /\ events.err # Nil
    /\ sentinel' = [sentinel EXCEPT !.pc = "returned", !.ret = "sourceErr1"]
    /\ events' = [events EXCEPT !.err = Nil]
    /\ UNCHANGED <<sCertificate, fs, sHist>>

\* case err := <-watcher.Errors: return err
StartSourceErr ==
    /\ OnSentinel
    /\ sentinel.pc = "select"
    /\ events.err # Nil
    /\ sentinel' = [sentinel EXCEPT !.pc = "returned", !.ret = events.err]
    /\ events' = [events EXCEPT !.err = Nil]
    /\ UNCHANGED <<sCertificate, fs, sHist>>

\* loadCertificate, tls.LoadX509KeyPair reading the certificate file.
LoadReadCrt ==
    /\ OnAnySentinel
    /\ sentinel.pc = "readCrt"
    /\ sentinel' = [sentinel EXCEPT !.pc = "readKey",
                                    !.crt = fs.crt[CrtAt(fs)]]
    /\ UNCHANGED <<sCertificate, fs, events, sHist>>

\* loadCertificate, tls.LoadX509KeyPair reading the key file.
LoadReadKey ==
    /\ OnAnySentinel
    /\ sentinel.pc = "readKey"
    /\ sentinel' = [sentinel EXCEPT !.pc = "parse", !.key = fs.key[KeyAt(fs)]]
    /\ UNCHANGED <<sCertificate, fs, events, sHist>>

\* A loadCertificate that stores what it got, also when loading failed.
LoadFinish_StoresAnyway ==
    /\ OnAnySentinel
    /\ sentinel.pc = "parse"
    /\ LET r == ParseKeyPair(sentinel.crt, sentinel.key)
       IN  /\ sCertificate' = r.cert
           /\ IF r.err # Nil
                THEN /\ sentinel' = [sentinel EXCEPT !.pc = "returned",
                                                     !.ret = r.err,
                                                     !.crt = Missing,
                                                     !.key = "missing"]
                     /\ sHist' = [sHist EXCEPT !.loadErrs = @ + 1]
                ELSE /\ sentinel' = [sentinel EXCEPT !.pc = "select",
                                                     !.crt = Missing,
                                                     !.key = "missing"]
                     /\ sHist' = [sHist EXCEPT !.loads = @ + 1]
    /\ UNCHANGED <<fs, events>>

\* loadCertificate: on a parse error return it (Start returns it in turn);
\* otherwise attach the Leaf, Store the certificate and go on watching.
LoadFinish ==
    /\ OnAnySentinel
    /\ sentinel.pc = "parse"
    /\ LET r == ParseKeyPair(sentinel.crt, sentinel.key)
       IN  IF r.err # Nil
             THEN /\ sentinel' = [sentinel EXCEPT !.pc = "returned",
                                                  !.ret = r.err,
                                                  !.crt = Missing, !.key = "missing"]
                  /\ sHist' = [sHist EXCEPT !.loadErrs = @ + 1]
                  /\ UNCHANGED sCertificate
             ELSE /\ sentinel' = [sentinel EXCEPT !.pc = "select",
                                                  !.crt = Missing, !.key = "missing"]
                  /\ sCertificate' = r.cert
                  /\ sHist' = [sHist EXCEPT !.loads = @ + 1]
    /\ UNCHANGED <<fs, events>>

\* ------------------------------------------------------- the environment
\* fsnotify delivers events only while Start holds its watcher open, from
\* watcher.Add on, and only for what happens to the entries of the watched
\* directory itself.
Watching == sentinel.pc \notin {"new", "add", "returned"}
Notify(evs) ==
    IF subject = "sentinel" /\ Watching THEN [events EXCEPT !.q = @ \o evs]
    ELSE events
\* One more change made to the directory, seen by Start or not.
Changed == [sHist EXCEPT !.ops = @ + 1,
                         !.watched = IF Watching THEN @ + 1 ELSE @]

\* One system call on the certificate file: a file that is not there is
\* created empty (bytes that do not parse), a file that is there is
\* overwritten in place.  Only a regular my.crt is an entry of the watched
\* directory; a write through the symlink lands in the other directory.
FsWriteCrt(c) ==
    /\ OnAnySentinel
    /\ sHist.ops < MaxFsOps
    /\ IF fs.crt[CrtAt(fs)] = Missing
         THEN /\ fs' = [fs EXCEPT !.crt[CrtAt(fs)] = Bad]
              /\ events' = IF fs.layout = "regular"
                             THEN Notify(<<[name |-> "my.crt",
                                            op |-> "create"]>>)
                             ELSE events
         ELSE /\ fs' = [fs EXCEPT !.crt[CrtAt(fs)] = c]
              /\ events' = IF fs.layout = "regular"
                             THEN Notify(<<[name |-> "my.crt",
                                            op |-> "write"]>>)
                             ELSE events
    /\ sHist' = Changed
    /\ UNCHANGED <<sCertificate, sentinel>>

\* The key file is overwritten in place; my.key is an entry of the watched
\* directory unless it is a symlink through ..data.
FsWriteKey(k) ==
    /\ OnAnySentinel
    /\ sHist.ops < MaxFsOps
    /\ fs' = [fs EXCEPT !.key[KeyAt(fs)] = k]
    /\ events' = IF fs.layout # "dir"
                   THEN Notify(<<[name |-> "my.key", op |-> "write"]>>)
                   ELSE events
    /\ sHist' = Changed
    /\ UNCHANGED <<sCertificate, sentinel>>

\* The symlink is replaced in two system calls: a new symlink naming the
\* other directory is created beside the old one, then renamed over it:
\* my.crt itself in the "file" layout, ..data in the "dir" layout.  The
\* resolution changes at the rename.
FsSwapLink ==
    /\ OnAnySentinel
    /\ sHist.ops < MaxFsOps
    /\ fs.layout # "regular"
    /\ LET tmp == IF fs.layout = "dir" THEN "..data_tmp" ELSE ".my.new.crt"
           name == IF fs.layout = "dir" THEN "..data" ELSE "my.crt"
       IN  IF ~fs.newLink
             THEN /\ fs' = [fs EXCEPT !.newLink = TRUE]
                  /\ events' = Notify(<<[name |-> tmp, op |-> "create"]>>)
             ELSE /\ fs' = [fs EXCEPT
                              !.newLink = FALSE,
                              !.link = CHOOSE d \in Dirs : d # fs.link]
                  /\ events' = Notify(<<[name |-> tmp, op |-> "rename"],
                                        [name |-> name, op |-> "create"]>>)
    /\ sHist' = Changed
    /\ UNCHANGED <<sCertificate, sentinel>>

\* A regular my.crt is replaced as TestWatcher_Replacement does it, one
\* system call a step.  fs.Apply(WithFile("cert.new", "", WithBytes(b)))
\* opens cert.new with O_CREATE|O_TRUNC (the file is there, empty: event
\* create), opens it again with O_TRUNC (event write), then writes b (event
\* write); os.Rename puts it in the place of my.crt (events rename of
\* cert.new and create of my.crt).
FsReplaceCrt(c) ==
    /\ OnAnySentinel
    /\ sHist.ops < MaxFsOps
    /\ fs.layout = "regular"
    /\ CASE fs.newPc = "none" ->
              /\ fs' = [fs EXCEPT !.newCrt = Bad, !.newPc = "created"]
              /\ events' = Notify(<<[name |-> "cert.new", op |-> "create"]>>)
         [] fs.newPc = "created" ->
              /\ fs' = [fs EXCEPT !.newCrt = Bad, !.newPc = "truncated"]
              /\ events' = Notify(<<[name |-> "cert.new", op |-> "write"]>>)
         [] fs.newPc = "truncated" ->
              /\ fs' = [fs EXCEPT !.newCrt = c, !.newPc = "written"]
              /\ events' = Notify(<<[name |-> "cert.new", op |-> "write"]>>)
         [] fs.newPc = "written" ->
              /\ fs' = [fs EXCEPT !.crt[Top] = fs.newCrt,
                                  !.newCrt = Missing,
                                  !.newPc = "none"]
              /\ events' = Notify(<<[name |-> "cert.new", op |-> "rename"],
                                    [name |-> "my.crt", op |-> "create"]>>)
    /\ sHist' = Changed
    /\ UNCHANGED <<sCertificate, sentinel>>

\* The certificate file is removed.
FsRemoveCrt ==
    /\ OnAnySentinel
    /\ sHist.ops < MaxFsOps
    /\ fs.crt[CrtAt(fs)] # Missing
    /\ fs' = [fs EXCEPT !.crt[CrtAt(fs)] = Missing]
    /\ events' = IF fs.layout = "regular"
                   THEN Notify(<<[name |-> "my.crt", op |-> "remove"]>>)
                   ELSE events
    /\ sHist' = [Changed EXCEPT !.removes = IF Watching THEN @ + 1 ELSE @]
    /\ UNCHANGED <<sCertificate, sentinel>>

\* The event source reports an error on watcher.Errors.
FsnotifyError(e) ==
    /\ OnSentinel
    /\ Watching
    /\ events.err = Nil
    /\ sHist.ops < MaxFsOps
    /\ events' = [events EXCEPT !.err = e]
    /\ sHist' = Changed
    /\ UNCHANGED <<sCertificate, sentinel, fs>>

\* The caller cancels the context given to Start.
CtxCancel ==
    /\ OnAnySentinel
    /\ sentinel.ctx = "live"
    /\ sentinel' = [sentinel EXCEPT !.ctx = "canceled"]
    /\ UNCHANGED <<sCertificate, fs, events, sHist>>

\* The deadline of the context given to Start passes.
CtxDeadline ==
    /\ OnAnySentinel
    /\ sentinel.ctx = "live"
    /\ sentinel' = [sentinel EXCEPT !.ctx = "deadlineExceeded"]
    /\ UNCHANGED <<sCertificate, fs, events, sHist>>

\* ------------------------------------------------------ ticker.Sentinel
\* Start up to the loop: t := w.clock.NewTicker(w.duration)
TickerStart ==
    /\ OnTicker
    /\ sentinel.pc = "new"
    /\ sentinel' = [sentinel EXCEPT !.pc = "select"]
    /\ UNCHANGED <<sCertificate, fs, events, sHist>>

\* case <-ctx.Done(): return ctx.Err()
TickerCtxDone ==
    /\ OnTicker
    /\ sentinel.pc = "select"
    /\ sentinel.ctx \in CtxErrs
    /\ sentinel' = [sentinel EXCEPT !.pc = "returned", !.ret = sentinel.ctx]
    /\ UNCHANGED <<sCertificate, fs, events, sHist>>

\* case <-t.Chan(): loadCertificate is called
TickerTick ==
    /\ OnTicker
    /\ sentinel.pc = "select"
    /\ events.tick
    /\ events' = [events EXCEPT !.tick = FALSE]
    /\ sentinel' = [sentinel EXCEPT !.pc = "readCrt"]
    /\ UNCHANGED <<sCertificate, fs, sHist>>

\* The clock reaches the next period: the ticker's channel (of capacity
\* one) holds a tick, until Start stops the ticker on its return.
ClockAdvance ==
    /\ OnTicker
    /\ Watching
    /\ sHist.ticks < MaxTicks
    /\ events' = [events EXCEPT !.tick = TRUE]
    /\ sHist' = [sHist EXCEPT !.ticks = @ + 1]
    /\ UNCHANGED <<sCertificate, sentinel, fs>>

NextSentinel ==
    \/ Start
    \/ StartAdd
    \/ StartCtxDone
    \/ StartEvent
    \/ StartSourceErr
    \/ LoadReadCrt
    \/ LoadReadKey
    \/ LoadFinish
    \/ \E c \in CrtWrites : FsWriteCrt(c)
    \/ \E k \in KeyWrites : FsWriteKey(k)
    \/ FsSwapLink
    \/ \E c \in CrtWrites : FsReplaceCrt(c)
    \/ FsRemoveCrt
    \/ \E e \in SourceErrs : FsnotifyError(e)
    \/ CtxCancel
    \/ CtxDeadline

\* ======================================================================
\* Part III: fswatcher.Sentry, the channel-based watcher
\* ======================================================================
\* src/fswatcher/fswatcher.go holds two revisions of the Sentry.
\*   "A" (lines 1-96)  : New starts the event loop; Watch starts a goroutine
\*                       that loads the key pair and then adds the watch;
\*                       both channels are unbuffered.
\*   "B" (lines 98-195): New adds the watch, loads the key pair and puts it
\*                       in tlsChan, which has room for one value; Watch
\*                       starts the event loop.
\* In both, Close closes the fsnotify watcher and then the two channels.
\* sentry.rev is "A" or "B".
\* What reads the two channels Watch returns: a pair of goroutines that
\* range over them, or a caller that takes one value and then stops.
Consumers == {"drain", "once"}
FileStates == {"good", "bad"}        \* does the key pair on disk parse

SentryPanicked ==
    \/ sentry.loopG.pc = "panicked"
    \/ sentry.watchG.pc = "panicked"
    \/ sentry.closer.pc = "panicked"

\* A panic in any goroutine ends the program.
OnSentry ==
    /\ subject = "sentry"
    /\ ~SentryPanicked
    /\ UNCHANGED <<subject, certinelVars, sentinelVars, legacy, mutexC, poller>>

IdleSentry ==
    [rev |-> "none", consumer |-> "done", got |-> {}, file |-> "good",
     watching |-> FALSE, fsn |-> "open", evq |-> <<>>, fsnErr |-> Nil,
     tlsChan |-> "open", tlsBuf |-> <<>>, errChan |-> "open",
     loopG |-> [pc |-> "none", val |-> Nil],
     watchG |-> [pc |-> "none", val |-> Nil],
     closer |-> [pc |-> "idle", calls |-> 0, ret |-> Nil],
     ops |-> 0, spun |-> FALSE, watched |-> FALSE]

\* New(cert, key) returned a Sentry.  Revision B loads the key pair in New
\* and fails when it does not parse, so its Sentry starts from a good file
\* with the certificate waiting in tlsChan.
InitSentry ==
    \E r \in {"A", "B"}, c \in Consumers, f \in FileStates :
        /\ r = "B" => f = "good"
        /\ sentry = [IdleSentry EXCEPT
                        !.rev = r, !.consumer = c, !.file = f,
                        !.watching = (r = "B"),
                        !.tlsBuf = IF r = "B" THEN <<"cert">> ELSE <<>>,
                        !.loopG.pc = IF r = "A" THEN "select" ELSE "none"]

\* make(chan tls.Certificate) in A, make(chan tls.Certificate, 1) in B.
TlsCap == IF sentry.rev = "B" THEN 1 ELSE 0

\* A goroutine is ready to receive from the channels Watch returned: the
\* channels are private fields, and a reader has them only once Watch has
\* handed them out.
ConsumerReady == sentry.watched /\ sentry.consumer \in Consumers
AfterReceive == IF sentry.consumer = "once" THEN "done" ELSE sentry.consumer

\* w.loadCertificate(): tls.LoadX509KeyPair and x509.ParseCertificate on
\* the files as they are now.  What the goroutine sends next.
loadCertificate ==
    IF sentry.file = "good" THEN [pc |-> "sendTls", val |-> "cert"]
                             ELSE [pc |-> "sendErr", val |-> "loadErr"]

\* w.tlsChan <- certificate by goroutine g, which then goes to next.  A
\* send on a closed channel panics, also when the goroutine was already
\* blocked in the send; otherwise the value goes into the buffer, or to a
\* ready receiver, or the goroutine stays blocked.
SendTls(g, next) ==
    /\ sentry[g].pc = "sendTls"
    /\ \/ /\ sentry.tlsChan = "closed"
          /\ sentry' = [sentry EXCEPT ![g].pc = "panicked"]
       \/ /\ sentry.tlsChan = "open"
          /\ Len(sentry.tlsBuf) < TlsCap
          /\ sentry' = [sentry EXCEPT ![g].pc = next,
                                      !.tlsBuf = Append(@, sentry[g].val)]
       \/ /\ sentry.tlsChan = "open"
          /\ TlsCap = 0
          /\ ConsumerReady
          /\ sentry' = [sentry EXCEPT ![g].pc = next,
                                      !.consumer = AfterReceive,
                                      !.got = @ \cup {sentry[g].val}]

\* w.errChan <- err by goroutine g; errChan is unbuffered.
SendErr(g, from, next) ==
    /\ sentry[g].pc = from
    /\ \/ /\ sentry.errChan = "closed"
          /\ sentry' = [sentry EXCEPT ![g].pc = "panicked"]
       \/ /\ sentry.errChan = "open"
          /\ ConsumerReady
          /\ sentry' = [sentry EXCEPT ![g].pc = next,
                                      !.consumer = AfterReceive,
                                      !.got = @ \cup {sentry[g].val}]

\* Watch(): starts its goroutine and returns the two channels.  One call.
SentryWatch ==
    /\ OnSentry
    /\ ~sentry.watched
    /\ sentry.closer.pc \in {"idle", "returned"}
    /\ sentry' = IF sentry.rev = "A"
                   THEN [sentry EXCEPT !.watched = TRUE,
                                       !.watchG.pc = "load"]
                   ELSE [sentry EXCEPT !.watched = TRUE,
                                       !.loopG.pc = "select"]

\* --- the event loop: for { select { Events, Errors } }
\* case event := <-Events.  A closed Events channel yields the zero Event,
\* whose Op has no Write bit, and the loop goes round again.
SentryLoopEvent ==
    /\ OnSentry
    /\ sentry.loopG.pc = "select"
    /\ \/ /\ sentry.fsn = "open"
          /\ sentry.evq # <<>>
          /\ sentry' = [sentry EXCEPT
                           !.evq = Tail(@),
                           !.loopG = IF Head(sentry.evq) = "write"
                                       THEN loadCertificate
                                       ELSE @]
       \/ /\ sentry.fsn = "closed"
          /\ sentry' = [sentry EXCEPT !.spun = TRUE]

\* case err := <-Errors.  A closed Errors channel yields a nil error, which
\* is sent on like any other.
SentryLoopError ==
    /\ OnSentry
    /\ sentry.loopG.pc = "select"
    /\ \/ /\ sentry.fsn = "open"
          /\ sentry.fsnErr # Nil
          /\ sentry' = [sentry EXCEPT
                           !.fsnErr = Nil,
                           !.loopG = [pc |-> "sendErr",
                                      val |-> sentry.fsnErr]]
       \/ /\ sentry.fsn = "closed"
          /\ sentry' = [sentry EXCEPT
                           !.loopG = [pc |-> "sendErr", val |-> Nil]]

SentryLoopSendTls == OnSentry /\ SendTls("loopG", "select")

SentryLoopSendErr == OnSentry /\ SendErr("loopG", "sendErr", "select")

\* --- the goroutine Watch starts in revision A
\* w.loadCertificate(), which sends what it loaded.
SentryWatchLoad ==
    /\ OnSentry
    /\ sentry.watchG.pc = "load"
    /\ sentry' = [sentry EXCEPT !.watchG = loadCertificate]

SentryWatchSendTls == OnSentry /\ SendTls("watchG", "add")

SentryWatchSendErr == OnSentry /\ SendErr("watchG", "sendErr", "add")

\* err := w.fsnotify.Add(w.certPath); a closed fsnotify watcher refuses.
SentryWatchAdd ==
    /\ OnSentry
    /\ sentry.watchG.pc = "add"
    /\ sentry' = IF sentry.fsn = "open"
                   THEN [sentry EXCEPT !.watching = TRUE,
                                       !.watchG.pc = "exited"]
                   ELSE [sentry EXCEPT
                            !.watchG = [pc |-> "sendAddErr",
                                        val |-> "addErr"]]

\* if err != nil { w.errChan <- err }, and the goroutine ends.
SentryWatchSendAddErr == OnSentry /\ SendErr("watchG", "sendAddErr", "exited")

\* --- the reader of the channels
\* A value waiting in tlsChan is received; a closed channel still hands
\* out what it holds.
SentryConsumeTls ==
    /\ OnSentry
    /\ ConsumerReady
    /\ sentry.tlsBuf # <<>>
    /\ sentry' = [sentry EXCEPT !.tlsBuf = Tail(@),
                                !.consumer = AfterReceive,
                                !.got = @ \cup {Head(sentry.tlsBuf)}]

\* --- Close()
SentryCloseCall ==
    /\ OnSentry
    /\ sentry.closer.pc \in {"idle", "returned"}
    /\ sentry.closer.calls < MaxCloseCalls
    /\ sentry' = [sentry EXCEPT !.closer.pc = "fsnClose",
                                !.closer.calls = @ + 1]

\* err := w.fsnotify.Close(): fsnotify stops and closes Events and Errors;
\* closing it again does nothing; either way it returns nil.
SentryCloseFsnotify ==
    /\ OnSentry
    /\ sentry.closer.pc = "fsnClose"
    /\ sentry' = [sentry EXCEPT !.fsn = "closed", !.watching = FALSE,
                                !.evq = <<>>, !.fsnErr = Nil,
                                !.closer.ret = Nil,
                                !.closer.pc = "closeTls"]

\* close(w.tlsChan); closing a closed channel panics.
SentryCloseTls ==
    /\ OnSentry
    /\ sentry.closer.pc = "closeTls"
    /\ sentry' = IF sentry.tlsChan = "closed"
                   THEN [sentry EXCEPT !.closer.pc = "panicked"]
                   ELSE [sentry EXCEPT !.tlsChan = "closed",
                                       !.closer.pc = "closeErr"]

\* close(w.errChan); return err.
SentryCloseErr ==
    /\ OnSentry
    /\ sentry.closer.pc = "closeErr"
    /\ sentry' = IF sentry.errChan = "closed"
                   THEN [sentry EXCEPT !.closer.pc = "panicked"]
                   ELSE [sentry EXCEPT !.errChan = "closed",
                                       !.closer.pc = "returned"]

\* --- the watched file and fsnotify
\* The certificate file is rewritten; fsnotify reports it once the watch
\* has been added.
SentryFsWrite(c) ==
    /\ OnSentry
    /\ sentry.fsn = "open"
    /\ sentry.ops < MaxEvents
    /\ sentry' = [sentry EXCEPT
                     !.file = c, !.ops = @ + 1,
                     !.evq = IF sentry.watching THEN Append(@, "write")
                                                ELSE @]

SentryFsChmod ==
    /\ OnSentry
    /\ sentry.fsn = "open"
    /\ sentry.watching
    /\ sentry.ops < MaxEvents
    /\ sentry' = [sentry EXCEPT !.ops = @ + 1,
                                !.evq = Append(@, "chmod")]

SentryFsnotifyError ==
    /\ OnSentry
    /\ sentry.fsn = "open"
    /\ sentry.watching
    /\ sentry.fsnErr = Nil
    /\ sentry.ops < MaxEvents
    /\ sentry' = [sentry EXCEPT !.ops = @ + 1, !.fsnErr = "sourceErr1"]

NextSentry ==
    \/ SentryWatch
    \/ SentryLoopEvent
    \/ SentryLoopError
    \/ SentryLoopSendTls
    \/ SentryLoopSendErr
    \/ SentryWatchLoad
    \/ SentryWatchSendTls
    \/ SentryWatchSendErr
    \/ SentryWatchAdd
    \/ SentryWatchSendAddErr
    \/ SentryConsumeTls
    \/ SentryCloseCall
    \/ SentryCloseFsnotify
    \/ SentryCloseTls
    \/ SentryCloseErr
    \/ \E c \in FileStates : SentryFsWrite(c)
    \/ SentryFsChmod
    \/ SentryFsnotifyError

\* ======================================================================
\* Part IV: the Certinel of src/certinel.go
\* ======================================================================
\* Watch starts a goroutine that receives from the watcher's two channels
\* for ever; Close calls the watcher's Close, which closes both channels
\* (the Watchers of this revision: fswatcher.Sentry, and the mock of
\* certinel_test.go).  The Certinel is built by New, so its log is the
\* nullLogger; the arguments of Printf are evaluated all the same.  Each
\* goroutine holds what it received in a variable of its own (val) until
\* it has stored it or handed it to errBack.  A panic in any goroutine ends
\* the program.
OnLegacy ==
    /\ subject = "legacy"
    /\ \A w \in WatchCallers : legacy.loops[w].pc # "panicked"
    /\ legacy.closer.pc # "panicked"
    /\ UNCHANGED <<subject, certinelVars, sentinelVars, sentry, mutexC, poller>>

IdleLegacy ==
    [certificate |-> Nil, tlsChan |-> "open", errChan |-> "open",
     delivered |-> 0,
     loops |-> [w \in WatchCallers |-> [pc |-> "none", val |-> Nil]],
     closer |-> [pc |-> "idle", calls |-> 0, ret |-> Nil],
     lastErr |-> "none", nilErrBack |-> FALSE]

\* Watch(): go func() { tlsChan, errChan := c.watcher.Watch(); for {...} }.
LegacyWatch(w) ==
    /\ OnLegacy
    /\ legacy.loops[w].pc = "none"
    /\ legacy' = [legacy EXCEPT !.loops[w].pc = "select"]

\* case certificate := <-tlsChan, one statement a step.  The receive: the
\* watcher hands over a certificate with its Leaf set; from a closed
\* channel the receive yields tls.Certificate{} (EmptyCert).  Then the
\* arguments of c.log.Printf are evaluated: certificate.Leaf.Subject
\* dereferences the nil Leaf of the zero certificate.  Then
\* c.certificate.Store(&certificate).
LegacyRecvCert(w) ==
    /\ OnLegacy
    /\ CASE legacy.loops[w].pc = "select" ->
              \/ /\ legacy.tlsChan = "open"
                 /\ legacy.delivered < MaxEvents
                 /\ legacy' = [legacy EXCEPT
                        !.delivered = @ + 1,
                        !.loops[w] = [pc |-> "printf",
                                      val |-> CertName[legacy.delivered + 1]]]
              \/ /\ legacy.tlsChan = "closed"
                 /\ legacy' = [legacy EXCEPT
                        !.loops[w] = [pc |-> "printf", val |-> EmptyCert]]
         [] legacy.loops[w].pc = "printf" ->
              legacy' = [legacy EXCEPT
                            !.loops[w].pc = IF legacy.loops[w].val = EmptyCert
                                              THEN "panicked" ELSE "store"]
         [] legacy.loops[w].pc = "store" ->
              legacy' = [legacy EXCEPT
                            !.certificate = legacy.loops[w].val,
                            !.loops[w] = [pc |-> "select", val |-> Nil]]
         [] OTHER -> FALSE

\* case err := <-errChan: c.errBack(err), the receive and the call a step
\* each.  From a closed channel the receive yields a nil error, errBack is
\* called with it and the loop goes round again.
LegacyRecvErr(w) ==
    /\ OnLegacy
    /\ CASE legacy.loops[w].pc = "select" ->
              \/ /\ legacy.errChan = "open"
                 /\ legacy.delivered < MaxEvents
                 /\ legacy' = [legacy EXCEPT
                        !.delivered = @ + 1,
                        !.loops[w] = [pc |-> "errBack",
                                      val |-> ErrName[legacy.delivered + 1]]]
              \/ /\ legacy.errChan = "closed"
                 /\ legacy' = [legacy EXCEPT
                        !.loops[w] = [pc |-> "errBack", val |-> Nil]]
         [] legacy.loops[w].pc = "errBack" ->
              legacy' = [legacy EXCEPT
                            !.lastErr = legacy.loops[w].val,
                            !.nilErrBack = @ \/ legacy.loops[w].val = Nil,
                            !.loops[w] = [pc |-> "select", val |-> Nil]]
         [] OTHER -> FALSE

\* Close(): return c.watcher.Close(), one statement a step: the call, the
\* watcher's close(tlsChan), its close(errChan), the return.  Closing a
\* closed channel panics.
LegacyClose ==
    /\ OnLegacy
    /\ CASE legacy.closer.pc \in {"idle", "returned"} ->
              /\ legacy.closer.calls < MaxCloseCalls
              /\ legacy' = [legacy EXCEPT !.closer.pc = "closeTls",
                                          !.closer.calls = @ + 1]
         [] legacy.closer.pc = "closeTls" ->
              legacy' = IF legacy.tlsChan = "closed"
                          THEN [legacy EXCEPT !.closer.pc = "panicked"]
                          ELSE [legacy EXCEPT !.tlsChan = "closed",
                                              !.closer.pc = "closeErr"]
         [] legacy.closer.pc = "closeErr" ->
              legacy' = [legacy EXCEPT !.errChan = "closed",
                                       !.closer.pc = "return"]
         [] legacy.closer.pc = "return" ->
              legacy' = [legacy EXCEPT !.closer.pc = "returned"]
         [] OTHER -> FALSE

NextLegacy ==
    \/ \E w \in WatchCallers : LegacyWatch(w)
    \/ \E w \in WatchCallers : LegacyRecvCert(w)
    \/ \E w \in WatchCallers : LegacyRecvErr(w)
    \/ LegacyClose

\* ======================================================================
\* Part V: the mutex-based Certinel (src/unnamed/part_008)
\* ======================================================================
\* Watch and Close hold c.lock from entry to return.  The Watcher is any
\* implementation of the interface: it hands over certificates and errors
\* while its channels are open, its Close closes both channels and returns
\* nil or an error, and the program that owns it may close it directly.
OnMutex ==
    /\ subject = "mutex"
    /\ UNCHANGED <<subject, certinelVars, sentinelVars, sentry, legacy, poller>>

IdleMutex ==
    [certificate |-> Nil, closed |-> FALSE, done |-> "nil", lock |-> Nil,
     chans |-> "open", delivered |-> 0, lastErr |-> Nil,
     caller |-> [pc |-> "idle", calls |-> 0, ret |-> Nil],
     loop |-> "none",
     closer |-> [pc |-> "idle", calls |-> 0, ret |-> Nil, err |-> Nil]]

\* GetCertificate: the stored pointer, nil before the first Store.
MutexGetCertificate == [cert |-> mutexC.certificate, err |-> Nil]

\* --- Watch()
MutexWatchCall ==
    /\ OnMutex
    /\ mutexC.caller.pc \in {"idle", "returned"}
    /\ mutexC.caller.calls < MaxWatchCalls
    /\ mutexC' = [mutexC EXCEPT !.caller.pc = "lock",
                                !.caller.calls = @ + 1]

\* c.lock.Lock(); if c.done != nil || c.closed { return nil }; otherwise
\* c.done = make(chan struct{}) and the channels are taken from the
\* watcher.
MutexWatchLock ==
    /\ OnMutex
    /\ mutexC.caller.pc = "lock"
    /\ mutexC.lock = Nil
    /\ mutexC' = IF mutexC.done # "nil" \/ mutexC.closed
                   THEN [mutexC EXCEPT
                            !.caller.pc = "returned", !.caller.ret = Nil]
                   ELSE [mutexC EXCEPT
                            !.done = "open", !.lock = "watch",
                            !.caller.pc = "first"]

\* ok, err := c.processEvent() received a certificate: it is stored, the
\* event loop is started and Watch returns nil.
MutexWatchFirstCert ==
    /\ OnMutex
    /\ mutexC.caller.pc = "first"
    /\ mutexC.chans = "open"
    /\ mutexC.delivered < MaxEvents
    /\ mutexC' = [mutexC EXCEPT
                     !.delivered = @ + 1,
                     !.certificate = CertName[mutexC.delivered + 1],
                     !.loop = "select", !.lock = Nil,
                     !.caller.pc = "returned", !.caller.ret = Nil]

\* ok, err := c.processEvent() received an error: Watch returns it.
MutexWatchFirstErr ==
    /\ OnMutex
    /\ mutexC.caller.pc = "first"
    /\ mutexC.chans = "open"
    /\ mutexC.delivered < MaxEvents
    /\ mutexC' = [mutexC EXCEPT
                     !.delivered = @ + 1, !.lock = Nil,
                     !.caller.pc = "returned",
                     !.caller.ret = ErrName[mutexC.delivered + 1]]

\* ok, err := c.processEvent() found a channel closed: Watch returns
\* fmt.Errorf("closed").
MutexWatchFirstClosed ==
    /\ OnMutex
    /\ mutexC.caller.pc = "first"
    /\ mutexC.chans = "closed"
    /\ mutexC' = [mutexC EXCEPT !.lock = Nil,
                                !.caller.pc = "returned",
                                !.caller.ret = "closed"]

\* --- the event loop: for { ok, err := c.processEvent() ... }
MutexLoopCert ==
    /\ OnMutex
    /\ mutexC.loop = "select"
    /\ mutexC.chans = "open"
    /\ mutexC.delivered < MaxEvents
    /\ mutexC' = [mutexC EXCEPT
                     !.delivered = @ + 1,
                     !.certificate = CertName[mutexC.delivered + 1]]

\* if err != nil { c.errBack(err) }.
MutexLoopErr ==
    /\ OnMutex
    /\ mutexC.loop = "select"
    /\ mutexC.chans = "open"
    /\ mutexC.delivered < MaxEvents
    /\ mutexC' = [mutexC EXCEPT
                     !.delivered = @ + 1,
                     !.lastErr = ErrName[mutexC.delivered + 1]]

\* if !ok { return }, and the deferred close(c.done).
MutexLoopClosed ==
    /\ OnMutex
    /\ mutexC.loop = "select"
    /\ mutexC.chans = "closed"
    /\ mutexC' = [mutexC EXCEPT !.loop = "exited", !.done = "closed"]

\* --- Close()
MutexCloseCall ==
    /\ OnMutex
    /\ mutexC.closer.pc \in {"idle", "returned"}
    /\ mutexC.closer.calls < MaxCloseCalls
    /\ mutexC' = [mutexC EXCEPT !.closer.pc = "lock",
                                !.closer.calls = @ + 1]

\* c.lock.Lock(); if c.done == nil || c.closed { return nil }; otherwise
\* c.closed = true; err := c.watcher.Close().
MutexCloseLock ==
    /\ OnMutex
    /\ mutexC.closer.pc = "lock"
    /\ mutexC.lock = Nil
    /\ \/ /\ mutexC.done = "nil" \/ mutexC.closed
          /\ mutexC' = [mutexC EXCEPT
                           !.closer.pc = "returned", !.closer.ret = Nil]
       \/ /\ ~(mutexC.done = "nil" \/ mutexC.closed)
          /\ \E r \in CloseResults :
                mutexC' = [mutexC EXCEPT
                              !.closed = TRUE, !.chans = "closed",
                              !.lock = "close", !.closer.err = r,
                              !.closer.pc = "waitDone"]

\* <-c.done; return err.
MutexCloseWaitDone ==
    /\ OnMutex
    /\ mutexC.closer.pc = "waitDone"
    /\ mutexC.done = "closed"
    /\ mutexC' = [mutexC EXCEPT !.lock = Nil,
                                !.closer.pc = "returned",
                                !.closer.ret = mutexC.closer.err]

\* The program closes the watcher it gave to New, not through the Certinel.
MutexWatcherClose ==
    /\ OnMutex
    /\ mutexC.chans = "open"
    /\ mutexC' = [mutexC EXCEPT !.chans = "closed"]

NextMutex ==
    \/ MutexWatchCall
    \/ MutexWatchLock
    \/ MutexWatchFirstCert
    \/ MutexWatchFirstErr
    \/ MutexWatchFirstClosed
    \/ MutexLoopCert
    \/ MutexLoopErr
    \/ MutexLoopClosed
    \/ MutexCloseCall
    \/ MutexCloseLock
    \/ MutexCloseWaitDone
    \/ MutexWatcherClose

\* ======================================================================
\* Part VI: pollwatcher.Sentry (src/pollwatcher/pollwatcher.go)
\* ======================================================================
\* The certificate file is its existence, the generation of the pair it
\* holds (0 for a file that holds no certificate, as after a truncation)
\* and what os.Stat reports of it (size and modification time, one number
\* that every change of the file changes); the key file is the generation
\* of the pair it holds (0 likewise).  The owner of the files replaces the
\* pair as generateKeyAndCert does, one system call at a time.  The three
\* channels are unbuffered.  The consumer receives from both channels
\* ("both", as a Certinel does), from the certificate channel only ("tls",
\* as TestPollWatcher does) or not at all ("none").
\* A panic in any goroutine ends the program.
OnPoll ==
    /\ subject = "poll"
    /\ poller.loopG.pc # "panicked"
    /\ poller.closer # "panicked"
    /\ UNCHANGED <<subject, certinelVars, sentinelVars, sentry, legacy, mutexC>>

\* New(cert, key, pollInterval): three open channels, no goroutine; the
\* files hold the first pair.
IdlePoll ==
    [consumer |-> "none", got |-> {}, lastErr |-> Nil,
     crt |-> [exists |-> TRUE, gen |-> 1, stat |-> 1],
     key |-> 1, keyExists |-> TRUE,
     writer |-> "idle", pair |-> 1, ops |-> 0,
     stopChan |-> "open", tlsChan |-> "open", errChan |-> "open",
     initialStat |-> 0,
     loopG |-> [pc |-> "none", ch |-> Nil, cert |-> 0, err |-> Nil,
                stat |-> 0, next |-> Nil],
     closer |-> "idle", closes |-> 0]

\* Watch(): go func() { ... }(); return w.tlsChan, w.errChan
PollWatch ==
    /\ OnPoll
    /\ poller.loopG.pc = "none"
    /\ poller' = [poller EXCEPT !.loopG.pc = "start"]

\* initialStat, err := os.Stat(w.certPath); on an error the goroutine
\* sends it and returns; otherwise it goes on to w.loadCertificate().
PollStart ==
    /\ OnPoll
    /\ poller.loopG.pc = "start"
    /\ poller' =
         IF ~poller.crt.exists
           THEN [poller EXCEPT
                    !.loopG = [pc |-> "send", ch |-> "err", cert |-> 0,
                               err |-> "stat", stat |-> poller.initialStat,
                               next |-> "exited"]]
           ELSE [poller EXCEPT
                    !.initialStat = poller.crt.stat,
                    !.loopG = [pc |-> "readCrt", ch |-> Nil, cert |-> 0,
                               err |-> Nil, stat |-> poller.crt.stat,
                               next |-> "select"]]

\* case <-w.stopChan: return
PollSelectStop ==
    /\ OnPoll
    /\ poller.loopG.pc = "select"
    /\ poller.stopChan = "closed"
    /\ poller' = [poller EXCEPT !.loopG.pc = "exited"]

\* case <-ticker.C: stat the certificate; on an error send it and return;
\* if size or modification time differ from initialStat, go on to
\* loadCertificate, after which initialStat = stat with the stat taken
\* here.
PollTick ==
    /\ OnPoll
    /\ poller.loopG.pc = "select"
    /\ poller' =
         IF ~poller.crt.exists
           THEN [poller EXCEPT
                    !.loopG = [pc |-> "send", ch |-> "err", cert |-> 0,
                               err |-> "stat", stat |-> poller.initialStat,
                               next |-> "exited"]]
           ELSE IF poller.crt.stat # poller.initialStat
                  THEN [poller EXCEPT
                           !.loopG = [pc |-> "readCrt", ch |-> Nil,
                                      cert |-> 0, err |-> Nil,
                                      stat |-> poller.crt.stat,
                                      next |-> "select"]]
                  ELSE poller

\* loadCertificate up to its send.  tls.LoadX509KeyPair reads the
\* certificate file, then the key file, each as it is at that moment; it
\* fails on a file that is missing or holds no PEM data and on a private
\* key that does not match the certificate, and the error goes to errChan;
\* otherwise the certificate goes to tlsChan.
PollLoadCertificate ==
    /\ OnPoll
    /\ poller.loopG.pc \in {"readCrt", "readKey"}
    /\ poller' =
         IF poller.loopG.pc = "readCrt"
           THEN IF poller.crt.exists
                  THEN [poller EXCEPT !.loopG.pc = "readKey",
                                      !.loopG.cert = poller.crt.gen]
                  ELSE [poller EXCEPT !.loopG.pc = "send",
                                      !.loopG.ch = "err",
                                      !.loopG.err = "load"]
           ELSE IF /\ poller.keyExists
                   /\ poller.loopG.cert > 0
                   /\ poller.loopG.cert = poller.key
                  THEN [poller EXCEPT !.loopG.pc = "send",
                                      !.loopG.ch = "tls"]
                  ELSE [poller EXCEPT !.loopG.pc = "send",
                                      !.loopG.ch = "err",
                                      !.loopG.cert = 0,
                                      !.loopG.err = "load"]

\* w.tlsChan <- certificate  and  w.errChan <- err: a send on a closed
\* channel panics, also when the goroutine was already blocked in it; on an
\* open channel the send completes when the consumer receives.  After the
\* send of a reload comes initialStat = stat.
PollSend ==
    /\ OnPoll
    /\ poller.loopG.pc = "send"
    /\ IF poller.loopG.ch = "tls"
         THEN IF poller.tlsChan = "closed"
                THEN poller' = [poller EXCEPT !.loopG.pc = "panicked"]
                ELSE /\ poller.consumer \in {"both", "tls"}
                     /\ poller' = [poller EXCEPT
                           !.got = @ \cup {poller.loopG.cert},
                           !.initialStat = poller.loopG.stat,
                           !.loopG.pc = poller.loopG.next]
         ELSE IF poller.errChan = "closed"
                THEN poller' = [poller EXCEPT !.loopG.pc = "panicked"]
                ELSE /\ poller.consumer = "both"
                     /\ poller' = [poller EXCEPT
                           !.lastErr = poller.loopG.err,
                           !.initialStat = poller.loopG.stat,
                           !.loopG.pc = poller.loopG.next]

\* Close(): close(w.stopChan); close(w.tlsChan); close(w.errChan);
\* return nil, one statement a step.  Closing a closed channel panics.
PollClose ==
    /\ OnPoll
    /\ CASE poller.closer \in {"idle", "returned"} ->
              /\ poller.closes < MaxCloseCalls
              /\ poller' = [poller EXCEPT !.closer = "stop",
                                          !.closes = @ + 1]
         [] poller.closer = "stop" ->
              IF poller.stopChan = "closed"
                THEN poller' = [poller EXCEPT !.closer = "panicked"]
                ELSE poller' = [poller EXCEPT !.stopChan = "closed",
                                              !.closer = "tls"]
         [] poller.closer = "tls" ->
              poller' = [poller EXCEPT !.tlsChan = "closed",
                                       !.closer = "err"]
         [] poller.closer = "err" ->
              poller' = [poller EXCEPT !.errChan = "closed",
                                       !.closer = "returned"]

\* The program that owns the files: "gen" is the next system call of
\* generateKeyAndCert writing the next pair, "rm" is os.Remove of the
\* certificate file and "rmKey" os.Remove of the key file.  os.Create truncates the certificate file; pem.Encode
\* writes to the file directly, one write(2) per piece (the BEGIN line, the
\* body lines, the END line), so the file grows write by write and holds a
\* certificate only after the last one; os.OpenFile truncates the key file
\* (creating it when it is not there) and pem.Encode writes the key in the
\* same way.
PollFsOp(op) ==
    /\ OnPoll
    /\ poller.ops < MaxPollOps
    /\ CASE op = "gen" /\ poller.writer = "idle" ->
              poller' = [poller EXCEPT
                            !.ops = @ + 1, !.writer = "crtCreated",
                            !.crt = [exists |-> TRUE, gen |-> 0,
                                     stat |-> @.stat + 1]]
         [] op = "gen" /\ poller.writer \in {"crtCreated", "crtPartial"} ->
              \/ poller' = [poller EXCEPT
                               !.ops = @ + 1, !.writer = "crtPartial",
                               !.crt = [exists |-> TRUE, gen |-> 0,
                                        stat |-> @.stat + 1]]
              \/ /\ poller.writer = "crtPartial"
                 /\ poller' = [poller EXCEPT
                                  !.ops = @ + 1, !.writer = "crtWritten",
                                  !.crt = [exists |-> TRUE,
                                           gen |-> poller.pair + 1,
                                           stat |-> @.stat + 1]]
         [] op = "gen" /\ poller.writer = "crtWritten" ->
              poller' = [poller EXCEPT
                            !.ops = @ + 1, !.writer = "keyTruncated",
                            !.key = 0, !.keyExists = TRUE]
         [] op = "gen" /\ poller.writer \in {"keyTruncated", "keyPartial"} ->
              \/ poller' = [poller EXCEPT
                               !.ops = @ + 1, !.writer = "keyPartial",
                               !.key = 0]
              \/ /\ poller.writer = "keyPartial"
                 /\ poller' = [poller EXCEPT
                                  !.ops = @ + 1, !.writer = "idle",
                                  !.key = poller.pair + 1,
                                  !.pair = @ + 1]
         [] op = "rm" ->
              /\ poller.writer = "idle"
              /\ poller.crt.exists
              /\ poller' = [poller EXCEPT !.ops = @ + 1,
                                          !.crt.exists = FALSE]
         [] op = "rmKey" ->
              /\ poller.writer = "idle"
              /\ poller.keyExists
              /\ poller' = [poller EXCEPT !.ops = @ + 1,
                                          !.keyExists = FALSE]
         [] OTHER -> FALSE

NextPoll ==
    \/ PollWatch
    \/ PollStart
    \/ PollSelectStop
    \/ PollTick
    \/ PollLoadCertificate
    \/ PollSend
    \/ PollClose
    \/ \E op \in {"gen", "rm", "rmKey"} : PollFsOp(op)

\* ======================================================================
\* Specifications
\* ======================================================================
\* A program that holds no Sentinel / no Certinel: the idle values of the
\* other parts' variables.
NoOthers ==
    /\ sentry = IdleSentry /\ legacy = IdleLegacy /\ mutexC = IdleMutex
    /\ poller = IdlePoll

NoSentinel ==
    /\ sCertificate = NilCert
    /\ sentinel = [pc |-> "none", realCertPath |-> NoPath, ctx |-> "live",
                   crt |-> Missing, key |-> "missing", ret |-> Nil]
    /\ fs = InitFs("file")
    /\ events = [q |-> <<>>, err |-> Nil, tick |-> FALSE]
    /\ sHist = [ops |-> 0, watched |-> 0, loads |-> 0, loadErrs |-> 0,
                ticks |-> 0, removes |-> 0]

NoCertinel == InitCertinel /\ watcher.closeResult = Nil

Init ==
    \/ subject = "certinel" /\ InitCertinel /\ NoSentinel /\ NoOthers
    \/ subject = "sentinel" /\ InitSentinel /\ NoCertinel /\ NoOthers

Next ==
    \/ \E w \in WatchCallers : WatchEnter(w)
    \/ \E w \in WatchCallers : WatchLeave(w)
    \/ LoopWatch
    \/ LoopRecvCert
    \/ LoopCertClosed
    \/ LoopStore
    \/ LoopCertLoaded
    \/ LoopRecvErr
    \/ LoopErrClosed
    \/ LoopErrBack
    \/ LoopErrLoaded
    \/ LoopExit
    \/ \E kind \in Kinds : DriverCall(kind)
    \/ DriverUnlock
    \/ \E k \in Closers : CloseCall(k)
    \/ \E k \in Closers : CloseWatchOnce(k)
    \/ \E k \in Closers : CloseOnceDo(k)
    \/ \E k \in Closers : WatcherCloseCert(k)
    \/ \E k \in Closers : WatcherCloseErr(k)
    \/ \E k \in Closers : CloseWaitDone(k)
    \/ \E k \in Closers : CloseDone(k)
    \/ Start
    \/ StartAdd
    \/ StartCtxDone
    \/ StartEvent
    \/ StartSourceErr
    \/ LoadReadCrt
    \/ LoadReadKey
    \/ LoadFinish
    \/ \E c \in CrtWrites : FsWriteCrt(c)
    \/ \E k \in KeyWrites : FsWriteKey(k)
    \/ FsSwapLink
    \/ \E c \in CrtWrites : FsReplaceCrt(c)
    \/ FsRemoveCrt
    \/ \E e \in SourceErrs : FsnotifyError(e)
    \/ CtxCancel
    \/ CtxDeadline

\* Either object, each with all the operations on it.
Spec == Init /\ [][Next]_vars

\* The Once-guarded Certinel alone.
InitC == subject = "certinel" /\ InitCertinel /\ NoSentinel /\ NoOthers
SpecCertinel == InitC /\ [][NextCertinel]_vars

\* The Go scheduler runs every goroutine that can take a step: the control
\* goroutine, a sender past its rendezvous, a caller inside Watch or Close.
\* Whether and when callers call Watch, Close, Observe or Error is not
\* constrained.
LoopStep ==
    \/ LoopWatch
    \/ LoopRecvCert
    \/ LoopCertClosed
    \/ LoopStore
    \/ LoopCertLoaded
    \/ LoopRecvErr
    \/ LoopErrClosed
    \/ LoopErrBack
    \/ LoopErrLoaded
    \/ LoopExit

CloseStep(k) ==
    \/ CloseWatchOnce(k)
    \/ CloseOnceDo(k)
    \/ WatcherCloseCert(k)
    \/ WatcherCloseErr(k)
    \/ CloseWaitDone(k)

FairCertinel ==
    /\ InitC
    /\ [][NextCertinel]_vars
    /\ WF_vars(LoopStep)
    /\ WF_vars(DriverUnlock)
    /\ \A k \in Closers : WF_vars(CloseStep(k))
    /\ \A w \in WatchCallers : WF_vars(WatchLeave(w))

\* The Once-guarded Certinel with a goroutine calling Wait, beside one
\* goroutine calling Watch and one calling Close.
NextWait ==
    \/ \E w \in {"w1"} : WatchEnter(w)
    \/ \E w \in {"w1"} : WatchLeave(w)
    \/ LoopWatch
    \/ LoopRecvCert
    \/ LoopCertClosed
    \/ LoopStore
    \/ LoopCertLoaded
    \/ LoopRecvErr
    \/ LoopErrClosed
    \/ LoopErrBack
    \/ LoopErrLoaded
    \/ LoopExit
    \/ \E kind \in Kinds : DriverCall(kind)
    \/ DriverUnlock
    \/ \E k \in {"k1"} : CloseCall(k)
    \/ \E k \in {"k1"} : CloseWatchOnce(k)
    \/ \E k \in {"k1"} : CloseOnceDo(k)
    \/ \E k \in {"k1"} : WatcherCloseCert(k)
    \/ \E k \in {"k1"} : WatcherCloseErr(k)
    \/ \E k \in {"k1"} : CloseWaitDone(k)
    \/ \E k \in {"k1"} : CloseDone(k)
    \/ WaitCall
    \/ WaitCtxCancel
    \/ WaitCtxDone
    \/ WaitLoaded
    \/ WaitReturn

SpecWait == InitC /\ [][NextWait]_vars

\* The same program under a scheduler that lets every goroutine able to
\* take a step take it: the control goroutine, the fake watcher's sender,
\* the Close call, the Watch call and the select of Wait.  The cancellation
\* of the context is left to the caller and is not forced.
FairWait ==
    /\ InitC
    /\ [][NextWait]_vars
    /\ WF_vars(LoopStep)
    /\ WF_vars(DriverUnlock)
    /\ WF_vars(CloseStep("k1"))
    /\ WF_vars(WatchLeave("w1"))
    /\ WF_vars(WaitCtxDone \/ WaitLoaded \/ WaitReturn)

\* The Once-guarded Certinel built with any of the errBack arguments; the
\* Close call made by an errBack runs on the control goroutine.
NextErrBack ==
    \/ \E w \in WatchCallers : WatchEnter(w)
    \/ \E w \in WatchCallers : WatchLeave(w)
    \/ LoopWatch
    \/ LoopRecvCert
    \/ LoopCertClosed
    \/ LoopStore
    \/ LoopCertLoaded
    \/ LoopRecvErr
    \/ LoopErrClosed
    \/ LoopErrBack
    \/ LoopErrLoaded
    \/ LoopExit
    \/ \E kind \in Kinds : DriverCall(kind)
    \/ DriverUnlock
    \/ \E k \in Closers : CloseCall(k)
    \/ \E k \in AllClosers : CloseWatchOnce(k)
    \/ \E k \in AllClosers : CloseOnceDo(k)
    \/ \E k \in AllClosers : WatcherCloseCert(k)
    \/ \E k \in AllClosers : WatcherCloseErr(k)
    \/ \E k \in AllClosers : CloseWaitDone(k)
    \/ \E k \in Closers : CloseDone(k)

InitErrBack ==
    /\ subject = "certinel"
    /\ \E arg \in ErrBackArgs : New(arg)
    /\ NoSentinel
    /\ NoOthers

FairErrBack ==
    /\ InitErrBack
    /\ [][NextErrBack]_vars
    /\ WF_vars(LoopStep)
    /\ WF_vars(DriverUnlock)
    /\ \A k \in AllClosers : WF_vars(CloseStep(k))
    /\ \A w \in WatchCallers : WF_vars(WatchLeave(w))

\* The fswatcher.Sentinel alone.
InitS == subject = "sentinel" /\ InitSentinel /\ NoCertinel /\ NoOthers
SpecSentinel == InitS /\ [][NextSentinel]_vars

\* The goroutine running Start is scheduled whenever it can take a step.
\* What is done to the directory, and whether the context is cancelled, is
\* not constrained.
StartStep ==
    \/ StartAdd
    \/ StartCtxDone
    \/ StartEvent
    \/ StartSourceErr
    \/ LoadReadCrt
    \/ LoadReadKey
    \/ LoadFinish

FairSentinel == InitS /\ [][NextSentinel]_vars /\ WF_vars(StartStep)

\* Either Sentinel, fswatcher or ticker.
NextSentinels ==
    \/ Start
    \/ StartAdd
    \/ StartCtxDone
    \/ StartEvent
    \/ StartSourceErr
    \/ TickerStart
    \/ TickerCtxDone
    \/ TickerTick
    \/ LoadReadCrt
    \/ LoadReadKey
    \/ LoadFinish
    \/ \E c \in CrtWrites : FsWriteCrt(c)
    \/ \E k \in KeyWrites : FsWriteKey(k)
    \/ FsSwapLink
    \/ \E c \in CrtWrites : FsReplaceCrt(c)
    \/ FsRemoveCrt
    \/ \E e \in SourceErrs : FsnotifyError(e)
    \/ ClockAdvance
    \/ CtxCancel
    \/ CtxDeadline

InitSentinels ==
    \/ subject = "sentinel" /\ InitSentinel /\ NoCertinel /\ NoOthers
    \/ subject = "ticker" /\ InitSentinel /\ NoCertinel /\ NoOthers

SpecSentinels == InitSentinels /\ [][NextSentinels]_vars

\* The goroutine running a ticker.Sentinel's Start.
TickerStep ==
    \/ TickerCtxDone
    \/ TickerTick
    \/ LoadReadCrt
    \/ LoadReadKey
    \/ LoadFinish

FairSentinels ==
    /\ InitSentinels
    /\ [][NextSentinels]_vars
    /\ WF_vars(StartStep)
    /\ WF_vars(TickerStep)

\* A fswatcher.Sentry alone, of either revision.  Each of its goroutines
\* (the event loop, the goroutine Watch starts in revision A), the
\* goroutine calling Close and the readers of the channels are scheduled
\* whenever they can take a step.
InitSy ==
    /\ subject = "sentry"
    /\ InitSentry
    /\ NoCertinel /\ NoSentinel
    /\ legacy = IdleLegacy /\ mutexC = IdleMutex /\ poller = IdlePoll

FairSentry ==
    /\ InitSy
    /\ [][NextSentry]_vars
    /\ WF_vars(\/ SentryLoopEvent
               \/ SentryLoopError
               \/ SentryLoopSendTls
               \/ SentryLoopSendErr)
    /\ WF_vars(\/ SentryWatchLoad
               \/ SentryWatchSendTls
               \/ SentryWatchSendErr
               \/ SentryWatchAdd
               \/ SentryWatchSendAddErr)
    /\ WF_vars(SentryCloseFsnotify \/ SentryCloseTls \/ SentryCloseErr)
    /\ WF_vars(SentryConsumeTls)

\* The Certinel of src/certinel.go alone, built by New(w, log, errBack).
\* A goroutine started by Watch is scheduled whenever it can take a step
\* of its own: a receive from a closed channel, the evaluation of Printf's
\* arguments, the Store, the call of errBack.  Whether and when the watcher
\* sends on an open channel is left open, and so is whether Close is
\* called; a Close that was called runs to its return.
InitL ==
    /\ subject = "legacy"
    /\ legacy = IdleLegacy
    /\ NoCertinel /\ NoSentinel
    /\ sentry = IdleSentry /\ mutexC = IdleMutex /\ poller = IdlePoll

FairLegacy ==
    /\ InitL
    /\ [][NextLegacy]_vars
    /\ \A w \in WatchCallers :
          WF_vars(/\ LegacyRecvCert(w) \/ LegacyRecvErr(w)
                  /\ legacy'.delivered = legacy.delivered)
    /\ WF_vars(LegacyClose /\ legacy.closer.pc \notin {"idle", "returned"})

\* The mutex-based Certinel alone, built by New(w, errBack).
InitM ==
    /\ subject = "mutex"
    /\ mutexC = IdleMutex
    /\ NoCertinel /\ NoSentinel
    /\ sentry = IdleSentry /\ legacy = IdleLegacy /\ poller = IdlePoll

\* A program that builds a pollwatcher.Sentry and reads its channels in one
\* of the three ways.  The polling goroutine is scheduled whenever it can
\* take a step, its ticker keeps ticking and a ready consumer receives;
\* when Close is called and the files are written is left to the program.
InitP ==
    /\ subject = "poll"
    /\ \E c \in {"both", "tls", "none"} :
          poller = [IdlePoll EXCEPT !.consumer = c]
    /\ NoCertinel /\ NoSentinel
    /\ sentry = IdleSentry /\ legacy = IdleLegacy /\ mutexC = IdleMutex

FairPoll ==
    /\ InitP
    /\ [][NextPoll]_vars
    /\ WF_vars(\/ PollStart
               \/ PollSelectStop
               \/ PollTick
               \/ PollLoadCertificate
               \/ PollSend)
    /\ WF_vars(PollClose /\ poller.closer \in {"stop", "tls", "err"})

\* The same program under a scheduler that runs every goroutine able to
\* take a step: a Lock of the free mutex is acquired, and a receive from a
\* closed channel completes.  Whether the watcher ever sends is left open.
FairMutex ==
    /\ InitM
    /\ [][NextMutex]_vars
    /\ WF_vars(MutexWatchLock \/ MutexWatchFirstClosed)
    /\ WF_vars(MutexLoopClosed)
    /\ WF_vars(MutexCloseLock \/ MutexCloseWaitDone)

\* ======================================================================
\* Properties of the Once-guarded Certinel
\* ======================================================================
Returned(k) == closer[k].pc = "returned"

\* C1: whenever the control loop has processed every certificate it has
\* received (it is not between a receive and the Store), GetCertificate
\* returns exactly the certificate received last, whatever errors were
\* interleaved.
C1_LatestCertificate ==
    (hist.delivered # Nil /\ loop.pc # "store")
        => GetCertificate.cert = hist.delivered

\* Two certificates and an error have been processed; the cell holds the
\* second certificate, which differs from the first one stored.
C1_Witness ==
    /\ hist.stores = 2
    /\ Len(hist.errBack) = 1
    /\ loop.pc = "select"
    /\ hist.delivered = certificate

\* The steps a failed reload consists of: the Certinel loop receiving an
\* error and handling it, and a Sentinel loadCertificate returning an error.
FailedReloadStep ==
    \/ loop.pc = "select" /\ loop'.pc = "errBack"
    \/ loop.pc = "errBack" /\ loop'.pc = "errLoaded"
    \/ loop.pc = "errLoaded" /\ loop'.pc = "select"
    \/ sHist'.loadErrs # sHist.loadErrs

\* C2: a failed reload (an error from the watcher's error channel handled by
\* the Certinel loop, or a Sentinel loadCertificate that returns an error)
\* never changes what GetCertificate returns.
C2_FailedReloadKeepsCell ==
    [][FailedReloadStep =>
         /\ GetCertificate' = GetCertificate
         /\ SentinelGetCertificate' = SentinelGetCertificate]_vars

\* The loop has just handled an error while a certificate was in the cell.
C2_Witness ==
    /\ loop.pc = "errLoaded"
    /\ certificate # Nil
    /\ hist.errBack # <<>>

\* C3: once GetCertificate has returned a certificate it never returns nil
\* again, whatever happens next (errors, channel closes, Close calls).
C3_NeverEmptyAgain ==
    [][GetCertificate.cert # Nil => GetCertificate'.cert # Nil]_vars

\* A certificate is in the cell after an error was handled, the loop has
\* exited and a Close call has returned.
C3_Witness ==
    /\ certificate # Nil
    /\ hist.errBack # <<>>
    /\ hist.anyReturned
    /\ loop.pc = "exited"

\* C4: GetCertificate is defined in every state and never returns an error;
\* while nothing has been stored it returns (nil, nil).
C4_GetCertificateInfallible ==
    /\ GetCertificate.err = Nil
    /\ hist.stores = 0 => GetCertificate = [cert |-> Nil, err |-> Nil]

\* Nothing was ever stored, although the loop ran, handled an error and
\* exited.
C4_Witness ==
    /\ hist.stores = 0
    /\ hist.errBack # <<>>
    /\ loop.pc = "exited"

\* C5: GetClientCertificate (Certinel and Sentinel) never returns nil: the
\* empty certificate while nothing is stored, otherwise what GetCertificate
\* returns.
C5_ClientCertificateNeverNil ==
    /\ GetClientCertificate.cert # Nil
    /\ certificate = Nil => GetClientCertificate.cert = EmptyCert
    /\ certificate # Nil => GetClientCertificate.cert = GetCertificate.cert
    /\ GetClientCertificate.err = Nil
    /\ SentinelGetClientCertificate.cert # NilCert
    /\ sCertificate = NilCert
         => SentinelGetClientCertificate.cert = EmptyCertificate
    /\ sCertificate # NilCert
         => SentinelGetClientCertificate.cert = SentinelGetCertificate.cert
    /\ SentinelGetClientCertificate.err = Nil

\* The control loop is running and no certificate has been stored yet.
C5_Witness ==
    /\ loop.pc = "select"
    /\ certificate = Nil
    /\ GetClientCertificate.cert = EmptyCert

\* C6: once any Close call has returned, the control goroutine is gone (it
\* never existed or it has exited) and nothing is stored in the cell and no
\* errBack call is made from then on, also when Observe / Error are called
\* on the watcher afterwards.
C6_NothingAfterClose ==
    [][hist.anyReturned =>
         /\ loop.pc \in {"none", "exited"}
         /\ loop' = loop
         /\ certificate' = certificate
         /\ hist'.stores = hist.stores
         /\ hist'.errBack = hist.errBack]_vars

\* Two closers ran concurrently, both returned, the goroutine had stored a
\* certificate, and the watcher was driven again after a Close had returned.
C6_Witness ==
    /\ hist.lateInject
    /\ hist.stores > 0
    /\ \A k \in Closers : Returned(k) /\ ~closer[k].seq

\* C7: watcher.Close is invoked at most once, and exactly once as soon as a
\* Close call has returned, however many Close calls are made and whatever
\* watcher.Close returned.
C7_OneTeardown ==
    /\ hist.wClose <= 1
    /\ hist.anyReturned => hist.wClose = 1
    /\ ~hist.panicked

\* Three Close calls have returned (two concurrent, one after them) on a
\* watcher whose Close returned an error.
C7_Witness ==
    /\ watcher.closeResult # Nil
    /\ \A k \in Closers : Returned(k)
    /\ \E k \in Closers : closer[k].calls = 2
    /\ hist.wClose = 1

\* C8 as stated: Close calls that ran concurrently (each began before any
\* Close call had returned) all return the same outcome.
C8_SameOutcome ==
    \A a, b \in Closers :
        (Returned(a) /\ Returned(b) /\ ~closer[a].seq /\ ~closer[b].seq)
            => closer[a].err = closer[b].err

\* C8 (amended): of the Close calls, the one that ran the teardown returns
\* what watcher.Close returned and every other call returns nil; concurrent
\* calls therefore agree when watcher.Close returned nil.
C8_TeardownCallerGetsOutcome ==
    /\ \A k \in Closers :
          Returned(k) =>
              closer[k].err = IF closer[k].tore THEN watcher.closeResult
                              ELSE Nil
    /\ watcher.closeResult = Nil => C8_SameOutcome

\* Two concurrent Close calls have returned on a watcher whose Close
\* returned an error.
C8_Witness ==
    /\ watcher.closeResult # Nil
    /\ \A k \in Closers : Returned(k) /\ ~closer[k].seq
    /\ \E k \in Closers : closer[k].tore

\* C9: a Close call made after an earlier Close call has returned returns
\* nil, and no Close call panics.
C9_LaterCloseReturnsNil ==
    /\ \A k \in Closers : (Returned(k) /\ closer[k].seq) => closer[k].err = Nil
    /\ ~hist.panicked

\* A later Close call has returned on a watcher whose Close returned an
\* error to the first call.
C9_Witness ==
    /\ watcher.closeResult # Nil
    /\ \E k \in Closers : Returned(k) /\ closer[k].seq /\ closer[k].calls = 2

\* The last Close call of k was made after Watch had started the control
\* goroutine and before any certificate was delivered, and it has returned.
EarlyCloseReturned(k) ==
    closer[k].early /\ closer[k].pc \in {"returned", "idle"}

\* C10 as stated: a Close call made when Watch has started the control
\* goroutine and no certificate has been delivered returns (FakeWatcher.Close
\* closes both channels), and from its return on GetCertificate returns
\* nil.
C10_CloseBeforeLoadKeepsNil ==
    /\ \A k \in Closers :
          (closer[k].pc = "watchOnce" /\ hist.spawned = 1
                                      /\ hist.delivered = Nil)
              ~> Returned(k)
    /\ [](\A k \in Closers :
             EarlyCloseReturned(k) => GetCertificate.cert = Nil)

\* C10 (amended): such a Close call returns, and from its return on
\* GetCertificate returns the certificate delivered last before the
\* watcher's channels were closed: nil when none was delivered, and the
\* certificate of an Observe that ran between the call of Close and the
\* closing of the channels otherwise; nothing is stored afterwards.
C10_CloseBeforeLoadTerminates ==
    /\ \A k \in Closers :
          (closer[k].pc = "watchOnce" /\ hist.spawned = 1
                                      /\ hist.delivered = Nil)
              ~> Returned(k)
    /\ [](\A k \in Closers :
             EarlyCloseReturned(k) => GetCertificate.cert = hist.delivered)
    /\ [][(\E k \in Closers : EarlyCloseReturned(k))
             => GetCertificate'.cert = GetCertificate.cert]_vars

\* Watch started the goroutine, Close was called before any certificate was
\* delivered and has returned, the goroutine has exited, and the watcher
\* was driven again afterwards: the cell is still empty.
C10_Witness ==
    /\ hist.spawned = 1
    /\ hist.wWatch = 1
    /\ \E k \in Closers : closer[k].early /\ Returned(k)
    /\ hist.delivered = Nil
    /\ hist.lateInject
    /\ loop.pc = "exited"
    /\ GetCertificate.cert = Nil

\* C11: however many Watch calls are made, one after another or at the same
\* time, at most one control goroutine is started and watcher.Watch is
\* called at most once; a Watch call that finds the Once used returns
\* without changing anything of the Certinel or the watcher.
C11_WatchOnce ==
    /\ [](hist.spawned <= 1 /\ hist.wWatch <= 1)
    /\ [][(\E w \in WatchCallers :
                watchPc[w] = "idle" /\ watchPc'[w] = "returned")
             => /\ UNCHANGED <<certificate, watchOnce, closeOnce, err, loaded,
                               done, loop, watcher>>
                /\ hist'.spawned = hist.spawned
                /\ hist'.wWatch = hist.wWatch]_vars

\* Both Watch callers have returned, one of them having waited on the Once
\* or come after it; one goroutine runs and has called watcher.Watch once.
C11_Witness ==
    /\ \A w \in WatchCallers : watchPc[w] = "returned"
    /\ hist.spawned = 1
    /\ hist.wWatch = 1
    /\ loop.pc = "select"

\* C12: once a Close call has returned, no step (a Watch call in
\* particular) starts a control goroutine, calls watcher.Watch or changes
\* any field of the Certinel.
C12_WatchAfterCloseNoOp ==
    [][hist.anyReturned =>
         /\ UNCHANGED <<certificate, watchOnce, closeOnce, err, loaded, done,
                        loop>>
         /\ hist'.spawned = hist.spawned
         /\ hist'.wWatch = hist.wWatch]_vars

\* Watch was called for the first time after Close had returned, and it
\* returned: no goroutine was ever started.
C12_Witness ==
    /\ hist.lateWatch
    /\ \E w \in WatchCallers : watchPc[w] = "returned"
    /\ hist.spawned = 0
    /\ hist.wWatch = 0
    /\ loop.pc = "none"

\* The errors a watcher can deliver.
Errors == {ErrName[i] : i \in 1..Len(ErrName)}

\* C13: whenever a Wait call has returned nil, a certificate is stored:
\* GetCertificate returns non-nil in that state and in every later one.
C13_WaitNilMeansLoaded ==
    /\ [](waiter.pc = "returned" /\ waiter.ret = Nil
            => GetCertificate.cert # Nil)
    /\ [][(waiter.pc = "returned" /\ waiter.ret = Nil)
             => GetCertificate'.cert # Nil]_vars

\* Wait returned nil after a certificate was stored; an error was handled
\* afterwards or before.
C13_Witness ==
    /\ waiter.pc = "returned"
    /\ waiter.ret = Nil
    /\ certificate # Nil
    /\ hist.errBack # <<>>

\* C14: when the first event the loop received is an error e, every Wait
\* call that returns with its context not cancelled returns e, also a call
\* made after certificates have been stored.
C14_FirstErrorSticks ==
    (hist.first \in Errors /\ waiter.pc = "returned" /\ waiter.ctx = "live")
        => waiter.ret = hist.first

\* The first event was an error; a second Wait call, made when a
\* certificate was already stored, has returned that error.
C14_Witness ==
    /\ hist.first \in Errors
    /\ waiter.pc = "returned"
    /\ waiter.ctx = "live"
    /\ waiter.calls = 2
    /\ waiter.late
    /\ waiter.ret = hist.first
    /\ certificate # Nil

\* C15: the errors passed to errBack are exactly the errors the loop has
\* received from the error channel, each once and in the order received;
\* only the error just received and about to be reported is missing.
C15_ErrBackInOrder ==
    hist.errRecv = hist.errBack \o (IF loop.pc = "errBack"
                                      THEN <<loop.val>> ELSE <<>>)

\* Two errors with a certificate between them have been reported.
C15_Witness ==
    /\ Len(hist.errBack) = 2
    /\ hist.stores = 1
    /\ hist.first \in Errors
    /\ loop.pc = "select"

\* C16: with an errBack that returns, or with nil passed to New, handling
\* an error never panics and never leaves the loop unable to take its next
\* step, and once an error has been handled GetCertificate returns the
\* certificate received last as soon as the loop has stored it.
C16_ErrorNotFatal ==
    /\ ~hist.panicked
    /\ errBack # "close" =>
          /\ loop.pc \in {"errBack", "errLoaded"} => ENABLED LoopStep
          /\ (hist.errBack # <<>> /\ hist.delivered # Nil
                 /\ loop.pc \notin {"store", "errBack"})
                => GetCertificate.cert = hist.delivered

\* New was given nil; the first event was an error, and the certificate
\* delivered after it is in the cell while the loop goes on selecting.
C16_Witness ==
    /\ errBack = "noop"
    /\ hist.first \in Errors
    /\ hist.errBack # <<>>
    /\ certificate # Nil
    /\ certificate = hist.delivered
    /\ loop.pc = "select"

\* C17 as stated: a Close call made from inside errBack returns.
C17_ReentrantCloseReturns ==
    closer[Callback].pc = "watchOnce" ~> closer[Callback].pc = "returned"

\* ======================================================================
\* Properties of fswatcher.Sentinel
\* ======================================================================
\* Start receives a directory event (the only step that shortens the queue).
EventStep == Len(events'.q) < Len(events.q)

\* The two conditions of a reload, on the event received and on the
\* resolution of the certificate path at that moment.
NameCreatedOrWritten ==
    LET event == Head(events.q)
    IN  event.name = "my.crt" /\ event.op \in {"create", "write"}
ResolutionMoved ==
    LET cur == EvalSymlinks(fs).path
    IN  cur # NoPath /\ cur # sentinel.realCertPath

\* C18 as stated: for every directory event received, a reload is started
\* iff the event creates or writes the certificate path or the resolution
\* is non-empty and differs from the recorded one.
C18_ReloadIff ==
    [][EventStep =>
         (sentinel'.pc = "readCrt"
             <=> (NameCreatedOrWritten \/ ResolutionMoved))]_vars

\* C18 (amended): for every directory event received while the certificate
\* path resolves, a reload is started iff one of the two conditions holds;
\* while it does not resolve no reload is started and Start returns the
\* resolution error.
C18_ReloadIffResolved ==
    [][EventStep =>
         IF EvalSymlinks(fs).err = Nil
           THEN sentinel'.pc = "readCrt"
                  <=> (NameCreatedOrWritten \/ ResolutionMoved)
           ELSE /\ sentinel'.pc = "returned"
                /\ sentinel'.ret = EvalSymlinks(fs).err]_vars

\* A reload started on the resolution alone: ..data was swapped, and no
\* event names my.crt.
C18_Witness ==
    /\ fs.layout = "dir"
    /\ sHist.ops = 2
    /\ sentinel.pc = "readCrt"
    /\ sentinel.realCertPath = "second"

\* The only change made to the directory is one swap of the symlink (the
\* new symlink created, then renamed over the old one), made while Start
\* was watching, and the context is live.
SwapOnly ==
    /\ sHist.ops = 2
    /\ sHist.watched = 2
    /\ fs.link = "second"
    /\ ~fs.newLink
    /\ sentinel.ctx = "live"

\* C19: after the symlink (my.crt itself, or the directory it goes
\* through) has been swapped under a running Start, and as long as nothing
\* else is done, Start does not return a load or resolution error and
\* GetCertificate comes to return the certificate of the new target.
C19_SwapConverges ==
    /\ [](SwapOnly => sentinel.ret \notin {"loadErr", "evalErr"})
    /\ SwapOnly ~> (SentinelGetCertificate.cert.serial = 2 \/ ~SwapOnly)

\* The swap of ..data was picked up: the new pair (serial 2, key k2) is
\* served and Start is back in its select with nothing left to process.
C19_Witness ==
    /\ SwapOnly
    /\ fs.layout = "dir"
    /\ sCertificate.serial = 2
    /\ sCertificate.key = "k2"
    /\ sentinel.pc = "select"
    /\ events.q = <<>>

\* my.crt and my.key have both been overwritten in place with the serial-2
\* pair, by two writes made while Start was watching, and nothing else was
\* done.
Rewritten ==
    /\ sHist.ops = 2
    /\ sHist.watched = 2
    /\ fs.crt[CrtAt(fs)] = Crt(2, "k2")
    /\ fs.key[KeyAt(fs)] = "k2"
    /\ sentinel.ctx = "live"

\* C20 as stated: once both files hold the serial-2 pair, GetCertificate
\* comes to return serial 2, however the two writes interleave with the
\* processing of their events.
C20_RewriteConverges ==
    Rewritten ~> (SentinelGetCertificate.cert.serial = 2 \/ ~Rewritten)

\* C21 as stated: a loadCertificate that fails inside a running Start
\* (fswatcher or ticker) leaves the loop running, back at its select.
C21_ReloadFailureKeepsLoop ==
    [][sHist'.loadErrs > sHist.loadErrs => sentinel'.pc = "select"]_vars

\* C22: when Start receives an error from the Errors channel of the event
\* source it returns, and what it returns is that error; a Start whose
\* result is a source error has returned.
C22_SourceErrorTerminates ==
    /\ [][(events.err # Nil /\ events'.err = Nil)
             => /\ sentinel'.pc = "returned"
                /\ sentinel'.ret = events.err]_vars
    /\ [](sentinel.ret \in SourceErrs => sentinel.pc = "returned")

\* Start returned the second kind of source error while directory events
\* were still waiting.
C22_Witness ==
    /\ subject = "sentinel"
    /\ sentinel.pc = "returned"
    /\ sentinel.ret = "sourceErr2"
    /\ events.q # <<>>

\* C23: when Start receives a directory event while the certificate path
\* does not resolve, it returns the resolution error and calls no
\* loadCertificate for that event.
C23_ResolutionFailureSurfaced ==
    /\ [][(EventStep /\ EvalSymlinks(fs).err # Nil)
             => /\ sentinel'.pc = "returned"
                /\ sentinel'.ret = "evalErr"
                /\ sHist'.loads = sHist.loads
                /\ sHist'.loadErrs = sHist.loadErrs]_vars
    /\ [](sentinel.ret = "evalErr"
            => sentinel.pc = "returned" /\ sentinel.crt = Missing)

\* The certificate was written and then removed; Start returned the
\* resolution error without a single reload, the remove event unprocessed.
C23_Witness ==
    /\ sentinel.pc = "returned"
    /\ sentinel.ret = "evalErr"
    /\ sHist.ops = 2
    /\ sHist.loads = 0
    /\ sHist.loadErrs = 0
    /\ events.q # <<>>

\* C24: a Sentinel obtained from fswatcher.New or ticker.New returns a
\* non-nil certificate and a nil error from GetCertificate in every state.
C24_SentinelAlwaysHasCertificate ==
    /\ SentinelGetCertificate.cert.ptr = "cert"
    /\ SentinelGetCertificate.err = Nil

\* A ticker.Sentinel whose Start returned a load error after an earlier
\* tick had reloaded: GetCertificate still returns a certificate.
C24_Witness ==
    /\ subject = "ticker"
    /\ sentinel.pc = "returned"
    /\ sentinel.ret = "loadErr"
    /\ sHist.loads > 0
    /\ SentinelGetCertificate.cert.ptr = "cert"

\* C25 as stated: once the context of a running Start is done (cancelled
\* or past its deadline) Start returns; and whenever Start has returned,
\* its result is the error of its context, which is done, or else a
\* resolution, load or source error.
C25_StartReturnsOnCtxDone ==
    /\ (Watching /\ sentinel.ctx \in CtxErrs) ~> sentinel.pc = "returned"
    /\ [](sentinel.pc = "returned"
            => \/ sentinel.ret \in CtxErrs /\ sentinel.ret = sentinel.ctx
               \/ sentinel.ret \in {"evalErr", "loadErr"} \cup SourceErrs)

\* C25 (amended): the same, with one more result Start can return in place
\* of the context's error: the error of its set-up (fsnotify.NewWatcher or
\* watcher.Add failed), returned before the loop looks at the context.
C25_StartReturnsOnCtxDoneOrSetUp ==
    /\ (Watching /\ sentinel.ctx \in CtxErrs) ~> sentinel.pc = "returned"
    /\ [](sentinel.pc = "returned"
            => \/ sentinel.ret \in CtxErrs /\ sentinel.ret = sentinel.ctx
               \/ sentinel.ret \in {"watcherErr", "evalErr", "loadErr"}
                                     \cup SourceErrs)
    /\ [](sentinel.ret = "watcherErr"
            => sentinel.pc = "returned" /\ sHist.watched = 0)

\* A ticker.Sentinel reloaded on a tick, then its deadline passed and
\* Start returned context.DeadlineExceeded.
C25_Witness ==
    /\ subject = "ticker"
    /\ sentinel.pc = "returned"
    /\ sentinel.ret = "deadlineExceeded"
    /\ sHist.loads > 0

\* ======================================================================
\* Properties of fswatcher.Sentry and of the two older Certinels
\* ======================================================================
\* The goroutines started by New and Watch of the Sentry have all ended.
SentryGoroutinesExited ==
    \A g \in {"loopG", "watchG"} : sentry[g].pc \in {"none", "exited"}

\* C26 as stated: once Close has returned on a Sentry, every goroutine
\* started by its New and its Watch eventually exits, none is left running
\* or blocked.
C26_GoroutinesExitAfterClose ==
    (sentry.closer.pc = "returned") ~> SentryGoroutinesExited

\* C27 as stated: a second call to Close on a Sentry does not panic, and
\* when it has returned it has returned nil.
C27_SecondCloseReturnsNil ==
    sentry.closer.calls >= 2
        => /\ sentry.closer.pc # "panicked"
           /\ sentry.closer.pc = "returned" => sentry.closer.ret = Nil

\* C28 as stated: with both channels drained, a Sentry on which Watch and
\* then Close were called has no goroutine that panics, on a send on a
\* closed channel or otherwise, however its goroutines interleave with
\* Close.
C28_NoPanicOnImmediateClose ==
    (sentry.consumer = "drain" /\ sentry.watched /\ sentry.closer.calls <= 1)
        => ~SentryPanicked

\* C29 as stated: once Close has closed the watcher's channels, every
\* goroutine started by Watch on the Certinel of src/certinel.go exits.
C29_WatchGoroutineExits ==
    (legacy.tlsChan = "closed" /\ legacy.errChan = "closed")
        ~> (\A w \in WatchCallers : legacy.loops[w].pc \in {"none", "exited"})

\* C30 as stated: whenever a call of Watch on the mutex-based Certinel has
\* returned nil, a certificate has been stored and GetCertificate returns
\* it, on every call and not only on the first.
C30_WatchNilMeansLoaded ==
    (mutexC.caller.pc = "returned" /\ mutexC.caller.ret = Nil)
        => MutexGetCertificate.cert # Nil

\* ======================================================================
\* Further properties of the Sentinels
\* ======================================================================
\* C31: whenever Start has processed a directory event and has not
\* returned on it, a reload having been started or not, the recorded
\* realCertPath is the resolution of the certificate path observed while
\* processing that event.
C31_RealCertPathIsLatest ==
    [][(EventStep /\ sentinel'.pc # "returned")
         => sentinel'.realCertPath = EvalSymlinks(fs).path]_vars

\* Start has processed every event of a swap and of a later write of the
\* key file, which starts no reload: the recorded path is the new target.
C31_Witness ==
    /\ subject = "sentinel"
    /\ sentinel.pc = "select"
    /\ sentinel.realCertPath = "second"
    /\ fs.link = "second"
    /\ sHist.watched = 2
    /\ sHist.loads = 1
    /\ events.q = <<>>

\* The certificate file was removed while Start was watching and then
\* created again with a certificate of the key in place (the removal and
\* the two system calls of the re-creation are the only changes made); the
\* context is live.
Recreated ==
    /\ fs.layout = "regular"
    /\ sHist.removes = 1
    /\ sHist.ops = 3
    /\ fs.crt[CrtAt(fs)] = Crt(3, "k1")
    /\ sentinel.ctx = "live"

\* C32 as stated: after the certificate file has been removed and created
\* again under a running Start, Start is still watching and GetCertificate
\* comes to return the new certificate, however the two operations
\* interleave with the processing of their events.
C32_RecreateConverges ==
    /\ [](Recreated => sentinel.pc # "returned")
    /\ Recreated ~> (SentinelGetCertificate.cert.serial = 3 \/ ~Recreated)

\* C32 (amended): after the certificate file has been removed and created
\* again under a running Start, either Start has returned the resolution
\* error of an event it processed while the file was absent or the load
\* error of a reload made before the new file held its certificate, or it
\* keeps watching and GetCertificate comes to return the new certificate;
\* it returns nothing else.
C32_RecreateConvergesOrEvalErr ==
    /\ [](Recreated => (sentinel.pc = "returned"
                          => sentinel.ret \in {"evalErr", "loadErr"}))
    /\ Recreated ~> \/ SentinelGetCertificate.cert.serial = 3
                    \/ sentinel.ret \in {"evalErr", "loadErr"}
                    \/ ~Recreated

\* The re-created certificate is served and Start is back in its select
\* with nothing left to process.
C32_Witness ==
    /\ Recreated
    /\ sCertificate.serial = 3
    /\ sentinel.pc = "select"
    /\ events.q = <<>>

\* C34: every certificate a Sentinel (fswatcher or ticker) hands out that
\* is not nil has its Leaf attached, in every state a reader can observe,
\* reloads included.
C34_LeafAlwaysAttached ==
    SentinelGetCertificate.cert.ptr # "nil"
        => SentinelGetCertificate.cert.leaf

\* A ticker.Sentinel serves a reloaded certificate, with its Leaf, while
\* the next reload is under way.
C34_Witness ==
    /\ subject = "ticker"
    /\ sHist.loads = 1
    /\ sCertificate.serial = 2
    /\ sCertificate.leaf
    /\ sentinel.pc = "parse"

\* C33: the closure of a watcher channel is never taken for a delivered
\* value.  errBack is only ever called with an error the watcher sent, never
\* with nil; a stored certificate is never the zero value; and a step of the
\* loop that leaves the select without a rendezvous with the sender (the
\* receive from a closed channel) only ends the loop: it stores nothing,
\* calls nothing and records nothing.
C33_ClosureIsNotDelivery ==
    /\ [](\A i \in 1..Len(hist.errBack) : hist.errBack[i] # Nil)
    /\ [](Len(hist.errBack) <= Len(hist.errRecv))
    /\ [](hist.stores > 0 => certificate # Nil)
    /\ [][(loop.pc = "select" /\ loop'.pc # "select" /\ driver' = driver)
            => /\ loop'.pc = "exit"
               /\ hist' = hist
               /\ certificate' = certificate
               /\ err' = err
               /\ loaded' = loaded]_vars

\* The loop has seen its error channel closed after one certificate was
\* stored, and has ended without a call of errBack.
C33_Witness ==
    /\ subject = "certinel"
    /\ watcher.errCh = "closed"
    /\ loop.pc = "exited"
    /\ ~loop.errChan
    /\ hist.stores = 1
    /\ hist.errBack = <<>>
    /\ certificate # Nil

\* C36: a Wait call blocked in its select with a context that is never
\* cancelled returns once a Close call has returned, whether or not a
\* certificate or an error had been delivered before the Close.
C36_WaitReturnsAfterClose ==
    (hist.anyReturned /\ waiter.pc = "select" /\ waiter.ctx = "live")
        ~> (waiter.pc = "returned" \/ waiter.ctx # "live")

\* C35: every Close call on the mutex-based Certinel returns; the call of
\* watcher.Close inside it returns and closes the channels.  This covers a
\* Close after a Watch that returned an error and a Close while Watch still
\* waits for the first event.
C35_CloseReturns ==
    (mutexC.closer.pc \in {"lock", "waitDone"}) ~> (mutexC.closer.pc = "returned")

\* Certificate and key have both been replaced, once, by the second pair
\* and the writer is done; the consumer reads both
\* channels, the polling goroutine runs and Close was not called.
Replaced ==
    /\ subject = "poll"
    /\ poller.consumer = "both"
    /\ poller.writer = "idle"
    /\ poller.pair = 2
    /\ poller.crt.exists
    /\ poller.keyExists
    /\ poller.crt.gen = poller.key
    /\ poller.crt.gen = 2
    /\ poller.closes = 0
    /\ poller.loopG.pc \notin {"none", "exited"}

\* C37: once certificate and key are both replaced, a running
\* pollwatcher.Sentry eventually delivers the new certificate on its
\* certificate channel (unless the files change again or Close is called),
\* whatever the order of the two writes and the poll ticks.
C37_NewCertificateDelivered ==
    Replaced ~> (poller.crt.gen \in poller.got \/ ~Replaced)

\* C38: the polling goroutine never panics on a send on a closed channel,
\* however Close interleaves with its sends.
C38_NoSendOnClosedChannel == poller.loopG.pc # "panicked"

====
